---- MODULE Spec2Model ----
(***************************************************************************)
(* A model of thunder-so/cdk-webservice: the WebServiceStack constructor   *)
(* (validation, ServiceConstruct, PipelineConstruct, EventsConstruct), the *)
(* resource name prefix, and the executions of the build and deploy stages *)
(* that PipelineConstruct generates.                                       *)
(*                                                                         *)
(* Strings are sequences of one-character strings; a string literal of the *)
(* source that is only ever appended as a whole ("-vpc", "imageUri.txt")   *)
(* is a single element.  A property that is undefined in JavaScript is the *)
(* value Undefined.                                                        *)
(***************************************************************************)
EXTENDS Integers, Sequences, FiniteSets, TLC

VARIABLES
    props,      \* the descriptor handed to new WebServiceStack(scope, id, props)
    pc,         \* position of the WebServiceStack constructor
    error,      \* the Error thrown by the constructor, or NoError
    declared,   \* the constructs declared in the construct tree so far
    fsOk,       \* environment: the Nixpacks source directory exists and the CLI runs
    run,        \* number of provisioning runs completed
    deployed,   \* physical resource names provisioned by completed runs
    now,        \* the build hosts' clock, in seconds
    exec,       \* the pipeline executions: position, environment variables, files
    ecrTags,    \* the registry: tag -> digest, as a set of pairs
    ecrImages,  \* the registry: digests of the images pushed
    taskdefs,   \* the task definition family: its revisions, oldest first
    service     \* the ECS service: the revision it runs, its deployment policy

stackVars == <<props, pc, error, declared, fsOk, run, deployed>>
pipeVars  == <<now, exec, ecrTags, ecrImages, taskdefs, service>>
vars      == <<stackVars, pipeVars>>

----------------------------------------------------------------------------
(* JavaScript values *)

Undefined == <<"undefined">>
NoError   == "none"

\* JavaScript truthiness of an optional string: undefined and '' are falsy
Truthy(v) == v # Undefined /\ v # <<>>

Min(a, b) == IF a <= b THEN a ELSE b

\* String.prototype.substring(0, n)
Substring(s, n) == SubSeq(s, 1, Min(n, Len(s)))

UpperCase == {"A", "B"}
LowerOf(c) == CASE c = "A" -> "a" [] c = "B" -> "b" [] OTHER -> c

\* String.prototype.toLowerCase()
ToLowerCase(s) == [i \in 1..Len(s) |-> LowerOf(s[i])]

\* the template literal `${a}-${b}-${c}`
Dashed(a, b, c) == a \o <<"-">> \o b \o <<"-">> \o c

\* obj?.field of an optional object
Opt(obj, field) == IF obj.defined THEN obj[field] ELSE Undefined

\* an optional number or enum member: set to v, or undefined
Some(v)  == [defined |-> TRUE, value |-> v]
NoNumber == [defined |-> FALSE, value |-> 0]
NoArch   == [defined |-> FALSE, value |-> ""]
\* an optional array that is undefined
NoArray  == [defined |-> FALSE, value |-> <<>>]

\* `v ?? dflt`: only undefined gives the default
Coalesce(v, dflt) == IF v.defined THEN v.value ELSE dflt

\* `v || dflt` on a number: undefined and 0 give the default
OrElse(v, dflt) == IF v.defined /\ v.value # 0 THEN v.value ELSE dflt

\* `s || dflt` on an optional string: undefined and '' give the default
OrElseString(s, dflt) == IF Truthy(s) THEN s ELSE dflt

Max(a, b) == IF a >= b THEN a ELSE b

\* An indexOf that counts positions from one.
IndexOfFromOne(arr, x) ==
    IF \E i \in 1..Len(arr) : arr[i] = x
    THEN CHOOSE i \in 1..Len(arr) : arr[i] = x /\ \A j \in 1..(i - 1) : arr[j] # x
    ELSE -1

\* Array.prototype.indexOf: the first position of x counted from zero, or -1
IndexOf(arr, x) ==
    IF \E i \in 1..Len(arr) : arr[i] = x
    THEN (CHOOSE i \in 1..Len(arr) : arr[i] = x /\ \A j \in 1..(i - 1) : arr[j] # x) - 1
    ELSE -1

\* Array.prototype.slice(start, end): a negative index counts from the end,
\* both are clamped to the array, `end` is exclusive
Slice(arr, start, end) ==
    LET from == IF start < 0 THEN Max(Len(arr) + start, 0) ELSE Min(start, Len(arr))
        to   == IF end < 0 THEN Max(Len(arr) + end, 0) ELSE Min(end, Len(arr))
    IN  SubSeq(arr, from + 1, to)

----------------------------------------------------------------------------
(* Resource name prefix *)

FieldLen        == 7
PrefixLen       == 23
EventsPrefixLen == 42

\* The pre-truncation form of PipelineConstruct's prefix, as a slip would
\* leave it: no per-field cut, no lower-casing.
PipelinePrefixUntruncated(p) ==
    Substring(Dashed(p.application, p.service, p.environment), EventsPrefixLen)

\* ServiceConstruct: resourceIdPrefix
ServicePrefix(p) ==
    ToLowerCase(Substring(Dashed(Substring(p.application, FieldLen),
                                 Substring(p.service, FieldLen),
                                 Substring(p.environment, FieldLen)), PrefixLen))

\* PipelineConstruct: this.resourceIdPrefix
PipelinePrefix(p) ==
    ToLowerCase(Substring(Dashed(Substring(p.application, FieldLen),
                                 Substring(p.service, FieldLen),
                                 Substring(p.environment, FieldLen)), PrefixLen))

\* EventsConstruct: this.resourceIdPrefix
EventsPrefix(p) ==
    Substring(Dashed(p.application, p.service, p.environment), EventsPrefixLen)

----------------------------------------------------------------------------
(* Paths *)

\* the characters the first replace of sanitizePath keeps
PathChars == {"a", "p", ".", "-", "_", " ", "/"}

\* path.replace(/[^a-zA-Z0-9._\-@#$%^&*+=~ /]|\/+/g, m => m.includes('/') ? '/' : ''):
\* a character outside the class is dropped, a run of slashes becomes one slash
RECURSIVE ReplaceMatches(_)
ReplaceMatches(s) ==
    IF s = <<>> THEN <<>>
    ELSE IF Head(s) = "/"
         THEN LET k == CHOOSE n \in 1..Len(s) :
                         /\ \A i \in 1..n : s[i] = "/"
                         /\ (n = Len(s) \/ s[n + 1] # "/")
              IN  <<"/">> \o ReplaceMatches(SubSeq(s, k + 1, Len(s)))
         ELSE IF Head(s) \in PathChars
              THEN <<Head(s)>> \o ReplaceMatches(Tail(s))
              ELSE ReplaceMatches(Tail(s))

\* .replace(/^\/+|\/+$/g, '')
RECURSIVE TrimSlashes(_)
TrimSlashes(s) ==
    IF s = <<>> THEN <<>>
    ELSE IF Head(s) = "/" THEN TrimSlashes(Tail(s))
    ELSE IF s[Len(s)] = "/" THEN TrimSlashes(SubSeq(s, 1, Len(s) - 1))
    ELSE s

\* sanitizePath
SanitizePath(path) ==
    IF ~Truthy(path) THEN <<>> ELSE TrimSlashes(ReplaceMatches(path))

\* PipelineConstruct: this.rootDir
RootDir(p) == SanitizePath(p.rootDir)

----------------------------------------------------------------------------
(* The build specification PipelineConstruct generates *)

\* A command is a string; the commands that embed a path are the literal
\* parts and the path.
InstallNixpacks  == <<"curl -sSL https://nixpacks.com/install.sh | bash">>
\* the install, build and start command options are empty: the descriptors
\* of the model set none of them
NixpacksBuild    == <<"nixpacks build --out . . ", " ", " ", " > .nixpacks/Dockerfile">>
ListFiles        == <<"ls -a">>
ExportImageTag   == <<"export IMAGE_TAG=$(date +%Y%m%d%H%M%S)">>
AwsVersion       == <<"aws --version">>
RegistryLogin    ==
    <<"aws ecr get-login-password --region $AWS_DEFAULT_REGION | docker login --username AWS --password-stdin $ECR_REPO">>
DockerPush       == <<"docker push $ECR_REPO:$IMAGE_TAG">>
ExportDigest     ==
    <<"export IMAGE_DIGEST=$(docker inspect --format=\"{{index .RepoDigests 0}}\" $ECR_REPO:$IMAGE_TAG | cut -d\"@\" -f2)">>
ExportImageUri   == <<"export IMAGE_URI=$ECR_REPO@$IMAGE_DIGEST">>
EchoImageUri     == <<"echo $IMAGE_URI > imageUri.txt">>
EchoImageTag     == <<"echo $IMAGE_TAG > imageTag.txt">>
EchoImageDigest  == <<"echo $IMAGE_DIGEST > imageDigest.txt">>

NixpacksDockerfile == <<".nixpacks/Dockerfile">>

\* 'docker build -t $ECR_REPO:$IMAGE_TAG -f ' + dockerfilePath + ' .'
DockerBuild(dockerfilePath) ==
    <<"docker build -t $ECR_REPO:$IMAGE_TAG -f ">> \o dockerfilePath \o <<" .">>

\* `cd ${this.rootDir}`
CdCommand(dir) == <<"cd ">> \o dir

\* `let dockerfilePath = props.serviceProps?.dockerFile || 'Dockerfile'`, then
\* `dockerfilePath = '.nixpacks/Dockerfile'` for Nixpacks
DockerfilePath(p) ==
    IF p.nixpacks THEN NixpacksDockerfile
    ELSE OrElseString(Opt(p.serviceProps, "dockerFile"), <<"Dockerfile">>)

\* createBuildProject: `buildCommands`
BuildCommands(p) ==
    IF p.nixpacks
    THEN << InstallNixpacks, NixpacksBuild, ListFiles, ExportImageTag, AwsVersion,
            RegistryLogin, DockerBuild(NixpacksDockerfile), DockerPush, ExportDigest >>
    ELSE << ExportImageTag, AwsVersion, RegistryLogin,
            DockerBuild(OrElseString(Opt(p.serviceProps, "dockerFile"), <<"Dockerfile">>)),
            DockerPush, ExportDigest >>

\* phases.pre_build.commands
PreBuildCommands(p) ==
    (IF Truthy(RootDir(p)) THEN <<CdCommand(RootDir(p))>> ELSE <<>>)
    \o Slice(BuildCommands(p), 0,
             IndexOf(BuildCommands(p), DockerBuild(DockerfilePath(p))))

\* phases.build.commands
BuildPhaseCommands(p) ==
    Slice(BuildCommands(p),
          IndexOf(BuildCommands(p), DockerBuild(DockerfilePath(p))),
          IndexOf(BuildCommands(p), DockerPush) + 1)

\* phases.post_build.commands
PostBuildCommands(p) ==
    Slice(BuildCommands(p), IndexOf(BuildCommands(p), ExportDigest),
          Len(BuildCommands(p)))
    \o << ExportImageUri, EchoImageUri, EchoImageTag, EchoImageDigest >>

\* artifacts.files of the build specification
ArtifactFiles(p) ==
    IF RootDir(p) # <<>>
    THEN { RootDir(p) \o <<"/", "imageUri.txt">>, RootDir(p) \o <<"/", "imageTag.txt">>,
           RootDir(p) \o <<"/", "imageDigest.txt">> }
    ELSE { <<"imageUri.txt">>, <<"imageTag.txt">>, <<"imageDigest.txt">> }

\* the file the deploy specification reads: $(cat ...)
DeployImageUriFile(p) ==
    IF RootDir(p) # <<>> THEN RootDir(p) \o <<"/", "imageUri.txt">> ELSE <<"imageUri.txt">>

\* BuildSpec.fromObject({version, phases, artifacts}) of the build project
BuildSpecOf(p) ==
    [ phases |-> [ pre_build |-> PreBuildCommands(p),
                   build |-> BuildPhaseCommands(p),
                   post_build |-> PostBuildCommands(p) ],
      artifacts |-> ArtifactFiles(p) ]

----------------------------------------------------------------------------
(* Declared constructs *)

\* One construct of the tree: the construct that declares it, its id in that
\* construct, its kind, its explicit physical name (Undefined when the name
\* is left to the platform) and the properties the model reads.
Res(construct, id, type, name, cfg) ==
    [construct |-> construct, id |-> id, type |-> type, name |-> name, cfg |-> cfg]

NoCfg == [none |-> TRUE]

HttpPort     == 80
HttpsPort    == 443
DefaultPort  == 3000

DefaultCpu          == 256
DefaultMemory       == 512
DefaultDesiredCount == 1

\* props.serviceProps?.field of a number or enum member
OptNum(sp, field) == IF sp.defined THEN sp[field] ELSE NoNumber
OptArch(sp)       == IF sp.defined THEN sp.architecture ELSE NoArch
\* props.serviceProps?.dockerBuildArgs
OptArgs(sp)       == IF sp.defined THEN sp.dockerBuildArgs ELSE NoArray

\* WebServiceStack: `const cpu = props.serviceProps?.cpu ?? 256`
StackCpu(p) == Coalesce(OptNum(p.serviceProps, "cpu"), DefaultCpu)
\* WebServiceStack: `const memoryMiB = props.serviceProps?.memorySize ?? 512`
StackMemory(p) == Coalesce(OptNum(p.serviceProps, "memorySize"), DefaultMemory)

\* TaskDefinition: `props.serviceProps?.architecture ?? CpuArchitecture.X86_64`
TaskArchitecture(p) == Coalesce(OptArch(p.serviceProps), "X86_64")

\* `architecture === CpuArchitecture.ARM64 ? Platform.LINUX_ARM64 : Platform.LINUX_AMD64`
ImagePlatform(p) ==
    IF OptArch(p.serviceProps) = Some("ARM64") THEN "linux/arm64" ELSE "linux/amd64"

\* A build image that is ARM whatever the architecture.
BuildProjectImageArm(p) == "LinuxArmBuildImage.AMAZON_LINUX_2_STANDARD_3_0"

\* createBuildProject: `architecture === CpuArchitecture.ARM64
\* ? LinuxArmBuildImage.AMAZON_LINUX_2_STANDARD_3_0 : LinuxBuildImage.STANDARD_7_0`
BuildProjectImage(p) ==
    IF OptArch(p.serviceProps) = Some("ARM64")
    THEN "LinuxArmBuildImage.AMAZON_LINUX_2_STANDARD_3_0"
    ELSE "LinuxBuildImage.STANDARD_7_0"

\* createDeployProject: the same expression
DeployProjectImage(p) ==
    IF OptArch(p.serviceProps) = Some("ARM64")
    THEN "LinuxArmBuildImage.AMAZON_LINUX_2_STANDARD_3_0"
    ELSE "LinuxBuildImage.STANDARD_7_0"

\* A container port that ignores serviceProps.port.
ContainerPortFixed(p) == DefaultPort

\* `props.serviceProps?.port || 3000`, as the port mapping resolves it
ContainerPort(p) == OrElse(OptNum(p.serviceProps, "port"), DefaultPort)

\* `props.serviceProps?.port || 3000`, as the health check resolves it
HealthCheckPort(p) == OrElse(OptNum(p.serviceProps, "port"), DefaultPort)

\* `props.serviceProps?.port || 3000`, as the target group resolves it
TargetGroupPort(p) == OrElse(OptNum(p.serviceProps, "port"), DefaultPort)

\* String.prototype.split(sep) with a one-character separator
RECURSIVE Split(_, _)
Split(s, sep) ==
    IF \E i \in 1..Len(s) : s[i] = sep
    THEN LET i == CHOOSE k \in 1..Len(s) : s[k] = sep /\ \A j \in 1..(k - 1) : s[j] # sep
         IN  <<SubSeq(s, 1, i - 1)>> \o Split(SubSeq(s, i + 1, Len(s)), sep)
    ELSE <<s>>

\* `const [key, value] = arg.split('='); return [key, value]`: the first two
\* pieces, the second undefined when there is no '='
BuildArgEntry(arg) ==
    LET parts == Split(arg, "=")
    IN  <<parts[1], IF Len(parts) >= 2 THEN parts[2] ELSE Undefined>>

\* Object.fromEntries(entries): for a key given twice the last entry counts
FromEntries(entries) ==
    { entries[i] : i \in { k \in 1..Len(entries) :
                             \A j \in (k + 1)..Len(entries) : entries[j][1] # entries[k][1] } }

\* `buildArgs: props.serviceProps?.dockerBuildArgs ? Object.fromEntries(
\* props.serviceProps.dockerBuildArgs.map(...)) : undefined`
BuildArgs(p) ==
    LET args == OptArgs(p.serviceProps) IN
    IF args.defined
    THEN [defined |-> TRUE,
          entries |-> FromEntries([i \in 1..Len(args.value) |-> BuildArgEntry(args.value[i])])]
    ELSE [defined |-> FALSE, entries |-> {}]

\* ServiceConstruct: `let dockerfilePath = props.serviceProps?.dockerFile`, then
\* `dockerfilePath = '.nixpacks/Dockerfile'` for Nixpacks
AssetDockerfile(p) ==
    IF p.nixpacks THEN NixpacksDockerfile ELSE Opt(p.serviceProps, "dockerFile")

\* the health check command of the container
HealthCheckCommand(p) ==
    <<"CMD-SHELL",
      <<"timeout 5 bash -c \"</dev/tcp/localhost/", ToString(HealthCheckPort(p)),
        "\" || exit 1">> >>

ForwardTo(tgIds) == [kind |-> "forward", targetGroups |-> tgIds]
RedirectHttps    == [kind |-> "redirect", protocol |-> "HTTPS", port |-> HttpsPort]

\* The HTTPS condition with the certificate test left out.
DomainNoCertificate(p) == Truthy(p.domain) /\ Truthy(p.hostedZoneId)

\* `if (props.domain && props.hostedZoneId && props.regionalCertificateArn)`
DomainEnabled(p) ==
    Truthy(p.domain) /\ Truthy(p.hostedZoneId) /\ Truthy(p.regionalCertificateArn)

\* ServiceConstruct, up to the Nixpacks Dockerfile generation
ServiceResourcesEarly(p) ==
    LET prefix == ServicePrefix(p) IN
    { Res("Stack", "Service", "Construct", Undefined,
          [cpu |-> StackCpu(p), memory |-> StackMemory(p)]),
      Res("Service", "Vpc", "Vpc", prefix \o <<"-vpc">>, NoCfg),
      Res("Service", "Cluster", "Cluster", prefix \o <<"-cluster">>, NoCfg),
      Res("Service", "LogGroup", "LogGroup",
          <<"/webservice/">> \o prefix \o <<"-logs">>, NoCfg),
      Res("Service", "Task", "TaskDefinition", Undefined,
          [cpu |-> ToString(Coalesce(OptNum(p.serviceProps, "cpu"), DefaultCpu)),
           memoryMiB |-> ToString(Coalesce(OptNum(p.serviceProps, "memorySize"),
                                           DefaultMemory)),
           cpuArchitecture |-> TaskArchitecture(p)]) }

\* the listeners, the redirect and the alias record of ServiceConstruct
ServiceListeners(p) ==
    { Res("Service", "Listener", "Listener", Undefined,
          [port |-> HttpPort, protocol |-> "HTTP",
           \* defaultAction of addListener, then listener.addAction('HTTPRedirect'),
           \* which has no conditions and so replaces the default action
           actions |-> <<ForwardTo({"targetGroup"})>>
                       \o (IF DomainEnabled(p) THEN <<RedirectHttps>> ELSE <<>>)]) }
    \cup
    (IF DomainEnabled(p)
     THEN { Res("Service", "HttpsListener", "Listener", Undefined,
                [port |-> HttpsPort, protocol |-> "HTTPS",
                 actions |-> <<ForwardTo({"targetGroup"})>>]),
            Res("Service", "AliasRecord", "ARecord", p.domain,
                [zone |-> p.hostedZoneId, target |-> "ALB"]) }
     ELSE {})

\* ServiceConstruct, from the container on
ServiceResourcesLate(p) ==
    LET prefix == ServicePrefix(p) IN
    { Res("Service", "Container", "Container", p.service \o <<"-container">>,
          [platform |-> ImagePlatform(p),
           file |-> AssetDockerfile(p),
           buildArgs |-> BuildArgs(p),
           healthCheck |-> HealthCheckCommand(p),
           portMappings |-> <<[containerPort |-> ContainerPort(p), protocol |-> "tcp"]>>]),
      Res("Service", "FargateService", "FargateService",
          p.service \o <<"-service">>,
          [desiredCount |-> Coalesce(OptNum(p.serviceProps, "desiredCount"),
                                     DefaultDesiredCount),
           minHealthyPercent |-> 50,
           circuitBreaker |-> [enable |-> TRUE]]),
      Res("Service", "targetGroup", "TargetGroup", prefix \o <<"-blue-tg">>,
          [port |-> TargetGroupPort(p), protocol |-> "HTTP"]),
      Res("Service", "ALB", "LoadBalancer", prefix, NoCfg),
      Res("Service", "LoadBalancerDNS", "CfnOutput",
          prefix \o <<"-LoadBalancerDNS">>, NoCfg) }
    \cup ServiceListeners(p)

ServiceResources(p) == ServiceResourcesEarly(p) \cup ServiceResourcesLate(p)

\* createPipeline: `stages`
PipelineStages ==
    << [stageName |-> "Source",
        actions |-> <<[actionName |-> "GithubSourceAction", project |-> "GitHub",
                       inputs |-> <<>>, outputs |-> <<"SourceOutput">>]>>],
       [stageName |-> "Build",
        actions |-> <<[actionName |-> "BuildAction", project |-> "ServiceDockerBuild",
                       inputs |-> <<"SourceOutput">>, outputs |-> <<"BuildOutput">>]>>],
       [stageName |-> "Deploy",
        actions |-> <<[actionName |-> "DeployAction", project |-> "EcsDeployProject",
                       inputs |-> <<"BuildOutput">>, outputs |-> <<>>]>>] >>

\* PipelineConstruct: registry, build project, deploy project, pipeline, output
PipelineResources(p) ==
    LET prefix == PipelinePrefix(p) IN
    { Res("Stack", "Pipeline", "Construct", Undefined,
          [cpu |-> StackCpu(p), memory |-> StackMemory(p)]),
      Res("Pipeline", "ServiceEcrRepo", "Repository", prefix \o <<"-repo">>, NoCfg),
      Res("Pipeline", "ServiceDockerBuild", "PipelineProject",
          prefix \o <<"-docker-build">>,
          [buildSpec |-> BuildSpecOf(p), buildImage |-> BuildProjectImage(p)]),
      Res("Pipeline", "EcsDeployProject", "PipelineProject",
          prefix \o <<"-ecs-deploy">>,
          [imageUriFile |-> DeployImageUriFile(p), buildImage |-> DeployProjectImage(p)]),
      Res("Pipeline", "WebServicePipeline", "Pipeline",
          prefix \o <<"-pipeline">>,
          [pipelineType |-> "V2", stages |-> PipelineStages]),
      Res("Pipeline", "CodePipelineName", "CfnOutput",
          prefix \o <<"-CodePipelineName">>, NoCfg) }

\* A state list without RESUMED.
PipelineStatesNoResumed == {"STARTED", "SUCCEEDED", "FAILED", "CANCELED", "SUPERSEDED"}

\* eventPattern.detail.state
PipelineStates == {"STARTED", "SUCCEEDED", "RESUMED", "FAILED", "CANCELED", "SUPERSEDED"}

\* EventsConstruct: rule, optional debug log group and role, cross-account role
EventsResources(p) ==
    LET prefix == EventsPrefix(p) IN
    { Res("Events", "EventsRule", "Rule", prefix \o <<"-events">>,
          [pipeline |-> PipelinePrefix(p) \o <<"-pipeline">>, state |-> PipelineStates,
           targets |-> (IF p.debug THEN {"EventsLogGroup"} ELSE {})
                       \cup {"CrossAccountEventTarget"},
           \* EventBus.fromEventBusArn(this, 'CrossAccountEventTarget', props.eventTarget!)
           eventBusArn |-> p.eventTarget]),
      Res("Events", "CrossAccountEventRole", "Role",
          prefix \o <<"-CrossAccountEventRole">>, NoCfg) }
    \cup
    (IF p.debug
     THEN { Res("Events", "EventsLogGroup", "LogGroup",
                <<"/aws/events/">> \o prefix \o <<"-pipeline">>, NoCfg),
            Res("Events", "LogGroupEventRole", "Role",
                prefix \o <<"-LogGroupEventRole">>, NoCfg) }
     ELSE {})

----------------------------------------------------------------------------
(* The WebServiceStack constructor *)

\* The identity test with the service left out.
IdentityMissingNoService(p) == ~Truthy(p.application) \/ ~Truthy(p.environment)

\* `!props.application || !props.environment || !props.service`
IdentityMissing(p) ==
    ~Truthy(p.application) \/ ~Truthy(p.environment) \/ ~Truthy(p.service)

\* The sourceProps test with the branch left out.
SourcePropsMissingNoBranch(p) ==
    ~Truthy(Opt(p.sourceProps, "owner")) \/ ~Truthy(Opt(p.sourceProps, "repo"))

\* `!props.sourceProps?.owner || !props.sourceProps?.repo || !props.sourceProps?.branchOrRef`
SourcePropsMissing(p) ==
    \/ ~Truthy(Opt(p.sourceProps, "owner"))
    \/ ~Truthy(Opt(p.sourceProps, "repo"))
    \/ ~Truthy(Opt(p.sourceProps, "branchOrRef"))

Throw(msg) ==
    /\ pc' = "failed"
    /\ error' = msg

\* `if (!props?.env) throw`
CheckEnv ==
    /\ pc = "start"
    /\ IF ~props.env.defined
       THEN Throw("Must provide AWS account and region.")
       ELSE pc' = "envChecked" /\ error' = error
    /\ UNCHANGED <<props, declared, fsOk, run, deployed, pipeVars>>

\* `if (!props.application || !props.environment || !props.service) throw`
CheckIdentity ==
    /\ pc = "envChecked"
    /\ IF IdentityMissing(props)
       THEN Throw("Mandatory stack properties missing.")
       ELSE pc' = "identityChecked" /\ error' = error
    /\ UNCHANGED <<props, declared, fsOk, run, deployed, pipeVars>>

\* new ServiceConstruct(this, 'Service', ...): the whole constructor.  With
\* buildSystem 'Nixpacks' it throws after the task definition when the source
\* directory is missing or the Nixpacks CLI fails.
NewServiceConstruct ==
    /\ pc = "identityChecked"
    /\ IF Undefined \in {props.application, props.service, props.environment}
       THEN \* props.application.substring of undefined
            Throw("TypeError") /\ declared' = declared
       ELSE IF props.nixpacks /\ ~fsOk
       THEN /\ Throw("Source directory does not exist")
            /\ declared' = declared \cup ServiceResourcesEarly(props)
       ELSE /\ pc' = "serviceDeclared" /\ error' = error
            /\ declared' = declared \cup ServiceResources(props)
    /\ UNCHANGED <<props, fsOk, run, deployed, pipeVars>>

\* `if (props?.accessTokenSecretArn)` is false: no pipeline, construction ends
NoPipeline ==
    /\ pc = "serviceDeclared"
    /\ ~Truthy(props.accessTokenSecretArn)
    /\ pc' = "done"
    /\ UNCHANGED <<props, error, declared, fsOk, run, deployed, pipeVars>>

\* the sourceProps check inside `if (props?.accessTokenSecretArn)`
CheckSourceProps ==
    /\ pc = "serviceDeclared"
    /\ Truthy(props.accessTokenSecretArn)
    /\ IF SourcePropsMissing(props)
       THEN Throw("Missing sourceProps: Github owner, repo and branch/ref required.")
       ELSE pc' = "sourceChecked" /\ error' = error
    /\ UNCHANGED <<props, declared, fsOk, run, deployed, pipeVars>>

\* new PipelineConstruct(this, 'Pipeline', ...)
NewPipelineConstruct ==
    /\ pc = "sourceChecked"
    /\ declared' = declared \cup PipelineResources(props)
    /\ pc' = "pipelineDeclared"
    /\ UNCHANGED <<props, error, fsOk, run, deployed, pipeVars>>

\* `if (props.eventTarget) new EventsConstruct(this, 'PipelineEvents', ...)`
NewEventsConstruct ==
    /\ pc = "pipelineDeclared"
    /\ IF Truthy(props.eventTarget)
       THEN declared' = declared \cup EventsResources(props)
       ELSE declared' = declared
    /\ pc' = "done"
    /\ UNCHANGED <<props, error, fsOk, run, deployed, pipeVars>>

----------------------------------------------------------------------------
(* Descriptors *)

Account == <<"123456789012">>
Region  == <<"us-east-1">>

NoEnv == [defined |-> FALSE, account |-> Undefined, region |-> Undefined]
EnvValues ==
    {NoEnv} \cup { [defined |-> TRUE, account |-> a, region |-> r] :
                     a \in {Undefined, Account}, r \in {Undefined, Region} }
FullEnv == [defined |-> TRUE, account |-> Account, region |-> Region]

NoServiceProps ==
    [defined |-> FALSE, port |-> NoNumber, desiredCount |-> NoNumber,
     cpu |-> NoNumber, memorySize |-> NoNumber, architecture |-> NoArch,
     dockerFile |-> Undefined, dockerBuildArgs |-> NoArray]

NoSourceProps ==
    [defined |-> FALSE, owner |-> Undefined, repo |-> Undefined, branchOrRef |-> Undefined]
SourcePropsValues ==
    {NoSourceProps} \cup
    { [defined |-> TRUE, owner |-> o, repo |-> r, branchOrRef |-> b] :
        o \in {Undefined, <<"thunder-so">>}, r \in {Undefined, <<"cdk-webservice">>},
        b \in {Undefined, <<"main">>} }

OptionalOf(v) == {Undefined, v}

\* every descriptor the stack model starts from
Descriptors ==
    [ env : EnvValues,
      application : {Undefined, <<>>, <<"A", "b">>},
      service : {Undefined, <<>>, <<"a", "B">>},
      environment : {Undefined, <<>>, <<"b">>},
      domain : OptionalOf(<<"api.example.com">>),
      hostedZoneId : OptionalOf(<<"Z123">>),
      regionalCertificateArn : OptionalOf(<<"arn:aws:acm:cert">>),
      accessTokenSecretArn : OptionalOf(<<"arn:aws:secretsmanager:token">>),
      sourceProps : SourcePropsValues,
      eventTarget : OptionalOf(<<"arn:aws:events:bus">>),
      debug : BOOLEAN,
      nixpacks : BOOLEAN,
      rootDir : {Undefined},
      serviceProps : {NoServiceProps} ]

\* the pipeline has not run: nothing built, pushed or deployed
PipelineIdle ==
    /\ now = 0
    /\ exec = <<>>
    /\ ecrTags = {}
    /\ ecrImages = {}
    /\ taskdefs = <<>>
    /\ service = [taskDefinition |-> 0]

StackInit ==
    /\ props \in Descriptors
    /\ pc = "start"
    /\ error = NoError
    /\ declared = {}
    /\ fsOk \in (IF props.nixpacks THEN BOOLEAN ELSE {TRUE})
    /\ run = 0
    /\ deployed = {}
    /\ PipelineIdle

StackNext ==
    \/ CheckEnv
    \/ CheckIdentity
    \/ NewServiceConstruct
    \/ NoPipeline
    \/ CheckSourceProps
    \/ NewPipelineConstruct
    \/ NewEventsConstruct

Spec == StackInit /\ [][StackNext]_vars

----------------------------------------------------------------------------
(* The constructor over the service properties *)

Architectures == {"ARM64", "X86_64"}

ServicePropsValues ==
    {NoServiceProps} \cup
    [ defined : {TRUE},
      port : {NoNumber, Some(0), Some(8080)},
      desiredCount : {NoNumber, Some(2)},
      cpu : {NoNumber, Some(512)},
      memorySize : {NoNumber, Some(1024)},
      architecture : {NoArch} \cup {Some(a) : a \in Architectures},
      dockerFile : {Undefined},
      dockerBuildArgs : {NoArray} ]

ServiceDescriptors ==
    [ env : {FullEnv},
      application : {<<"A", "b">>},
      service : {<<"a", "B">>},
      environment : {<<"b">>},
      domain : {Undefined},
      hostedZoneId : {Undefined},
      regionalCertificateArn : {Undefined},
      accessTokenSecretArn : OptionalOf(<<"arn:aws:secretsmanager:token">>),
      sourceProps : {[defined |-> TRUE, owner |-> <<"thunder-so">>,
                      repo |-> <<"cdk-webservice">>, branchOrRef |-> <<"main">>]},
      eventTarget : OptionalOf(<<"arn:aws:events:bus">>),
      debug : {FALSE},
      nixpacks : {FALSE},
      rootDir : {Undefined},
      serviceProps : ServicePropsValues ]

ServiceInit ==
    /\ props \in ServiceDescriptors
    /\ pc = "start"
    /\ error = NoError
    /\ declared = {}
    /\ fsOk = TRUE
    /\ run = 0
    /\ deployed = {}
    /\ PipelineIdle

SpecService == ServiceInit /\ [][StackNext]_vars

----------------------------------------------------------------------------
(* The constructor over the container build properties *)

\* entries of dockerBuildArgs: 'K=v', 'J=a=b', 'N'
ArgKV  == <<"K", "=", "v">>
ArgJAB == <<"J", "=", "a", "=", "b">>
ArgN   == <<"N">>

BuildPropsValues ==
    {NoServiceProps} \cup
    [ defined : {TRUE},
      port : {NoNumber},
      desiredCount : {NoNumber},
      cpu : {NoNumber},
      memorySize : {NoNumber},
      architecture : {NoArch} \cup {Some(a) : a \in Architectures},
      dockerFile : {Undefined, <<>>, <<"Dockerfile.prod">>, NixpacksDockerfile},
      dockerBuildArgs : {NoArray, Some(<<>>), Some(<<ArgKV>>), Some(<<ArgKV, ArgJAB>>),
                         Some(<<ArgN>>)} ]

BuildDescriptors ==
    [ env : {FullEnv},
      application : {<<"A", "b">>},
      service : {<<"a", "B">>},
      environment : {<<"b">>},
      domain : {Undefined},
      hostedZoneId : {Undefined},
      regionalCertificateArn : {Undefined},
      accessTokenSecretArn : OptionalOf(<<"arn:aws:secretsmanager:token">>),
      sourceProps : {[defined |-> TRUE, owner |-> <<"thunder-so">>,
                      repo |-> <<"cdk-webservice">>, branchOrRef |-> <<"main">>]},
      eventTarget : {Undefined},
      debug : {FALSE},
      nixpacks : BOOLEAN,
      rootDir : {Undefined, <<"a", "p", "p", "/">>},
      serviceProps : BuildPropsValues ]

BuildInit ==
    /\ props \in BuildDescriptors
    /\ pc = "start"
    /\ error = NoError
    /\ declared = {}
    /\ fsOk \in (IF props.nixpacks THEN BOOLEAN ELSE {TRUE})
    /\ run = 0
    /\ deployed = {}
    /\ PipelineIdle

SpecBuild == BuildInit /\ [][StackNext]_vars

----------------------------------------------------------------------------
(* The constructor over root directories *)

MaxPathLen == 5

\* a character sanitizePath keeps, the slash, and a character it drops
PathAlphabet == {"a", "/", "!"}

\* every string over the alphabet up to MaxPathLen characters
PathStrings == UNION { [1..n -> PathAlphabet] : n \in 0..MaxPathLen }

SanitizeDescriptors ==
    [ env : {FullEnv},
      application : {<<"A", "b">>},
      service : {<<"a", "B">>},
      environment : {<<"b">>},
      domain : {Undefined},
      hostedZoneId : {Undefined},
      regionalCertificateArn : {Undefined},
      accessTokenSecretArn : OptionalOf(<<"arn:aws:secretsmanager:token">>),
      sourceProps : {[defined |-> TRUE, owner |-> <<"thunder-so">>,
                      repo |-> <<"cdk-webservice">>, branchOrRef |-> <<"main">>]},
      eventTarget : {Undefined},
      debug : {FALSE},
      nixpacks : {FALSE},
      rootDir : {Undefined} \cup PathStrings,
      serviceProps : {NoServiceProps} ]

SanitizeInit ==
    /\ props \in SanitizeDescriptors
    /\ pc = "start"
    /\ error = NoError
    /\ declared = {}
    /\ fsOk = TRUE
    /\ run = 0
    /\ deployed = {}
    /\ PipelineIdle

SpecSanitize == SanitizeInit /\ [][StackNext]_vars

----------------------------------------------------------------------------
(* Provisioning runs over long and mixed-case identities *)

MaxLen  == 8
MaxRuns == 2

NameChars == {"a", "B"}

\* identities: runs of one character up to MaxLen, and two mixed ones
Identities ==
    { [i \in 1..n |-> c] : n \in 1..MaxLen, c \in NameChars }
    \cup { <<"a", "B">>, <<"B", "a", "-", "a">> }

PhysicalNames(resources) == { r.name : r \in {x \in resources : x.name # Undefined} }

\* bin/app.ts run once more with the same context: the stack is synthesized
\* and provisioned; the platform keeps one resource per physical name.
Provision ==
    /\ pc = "done"
    /\ run < MaxRuns
    /\ deployed' = deployed \cup PhysicalNames(declared)
    /\ run' = run + 1
    /\ pc' = "start"
    /\ declared' = {}
    /\ UNCHANGED <<props, error, fsOk, pipeVars>>

NamesDescriptors ==
    [ env : {NoEnv, FullEnv},
      application : Identities,
      service : Identities,
      environment : Identities \cup {<<>>},
      domain : {Undefined},
      hostedZoneId : {Undefined},
      regionalCertificateArn : {Undefined},
      accessTokenSecretArn : OptionalOf(<<"arn:aws:secretsmanager:token">>),
      sourceProps : {NoSourceProps,
                     [defined |-> TRUE, owner |-> <<"thunder-so">>,
                      repo |-> <<"cdk-webservice">>, branchOrRef |-> <<"main">>]},
      eventTarget : {<<"arn:aws:events:bus">>},
      debug : {FALSE},
      nixpacks : {FALSE},
      rootDir : {Undefined},
      serviceProps : {NoServiceProps} ]

NamesInit ==
    /\ props \in NamesDescriptors
    /\ pc = "start"
    /\ error = NoError
    /\ declared = {}
    /\ fsOk = TRUE
    /\ run = 0
    /\ deployed = {}
    /\ PipelineIdle

NamesNext == StackNext \/ Provision

SpecNames == NamesInit /\ [][NamesNext]_vars

----------------------------------------------------------------------------
(* The generated build and deploy specifications, executed *)

NumExecs == 2
MaxTicks == 2

\* the clock starts two seconds before a minute boundary
ClockStart == 60 - 2

Execs   == 1..NumExecs
\* the head of the branch moves at most once per trigger
Commits == 1..NumExecs

\* this.ecrRepository.repositoryUri, the value of ECR_REPO
EcrRepo(p) == <<"registry/">> \o PipelinePrefix(p) \o <<"-repo">>

\* the digest of the image built from a commit
Digest(commit) == <<"sha256:", ToString(commit)>>

\* A tag with the seconds left out (date +%Y%m%d%H%M).
DateTagMinutes(t) ==
    <<ToString(t \div 3600),
      ToString(((t \div 60) % 60) \div 10), ToString(((t \div 60) % 60) % 10)>>

\* $(date +%Y%m%d%H%M%S) at clock t: the date and hour, then two digits of
\* minutes and two of seconds
DateTag(t) ==
    <<ToString(t \div 3600),
      ToString(((t \div 60) % 60) \div 10), ToString(((t \div 60) % 60) % 10),
      ToString((t % 60) \div 10), ToString((t % 60) % 10)>>

\* An image URI that names the tag instead of the digest.
ImageUriByTag(repo, tag, digest) == repo \o <<":">> \o tag

\* 'export IMAGE_URI=$ECR_REPO@$IMAGE_DIGEST'
ImageUri(repo, tag, digest) == repo \o <<"@">> \o digest

\* cut -d"@" -f2: the field between the first and the second "@"
CutField2(s) ==
    LET ats == {i \in 1..Len(s) : s[i] = "@"} IN
    IF ats = {} THEN s
    ELSE LET first == CHOOSE i \in ats : \A j \in ats : i <= j
             rest  == {i \in ats : i > first}
             stop  == IF rest = {} THEN Len(s) + 1
                      ELSE CHOOSE i \in rest : \A j \in rest : i <= j
         IN  SubSeq(s, first + 1, stop - 1)

\* the digest the registry holds for a tag, or <<>>
TagDigest(tags, tag) ==
    IF \E td \in tags : td[1] = tag
    THEN (CHOOSE td \in tags : td[1] = tag)[2]
    ELSE <<>>

\* The repo digest looked up in the registry by tag, not in the local daemon.
RegistryRepoDigest(e) ==
    EcrRepo(props) \o <<"@">> \o TagDigest(ecrTags, exec[e].IMAGE_TAG)

\* docker inspect --format="{{index .RepoDigests 0}}" $ECR_REPO:$IMAGE_TAG, on the
\* build host's own daemon
InspectRepoDigest(e) == exec[e].repoDigests[1]

\* the fields of a described task definition that registration does not take:
\* `del(.taskDefinitionArn, .revision, .status, .requiresAttributes,
\* .compatibilities, .registeredAt, .registeredBy)`
ReadOnlyFields ==
    { "taskDefinitionArn", "revision", "status", "requiresAttributes",
      "compatibilities", "registeredAt", "registeredBy" }

\* A patch that writes a fresh container definition holding only the image.
RebuildContainer(td, uri) ==
    [td EXCEPT !.containerDefinitions =
                   <<[name |-> td.containerDefinitions[1].name, image |-> uri]>>]

\* jq: `.containerDefinitions[0].image = $IMAGE_URI`
PatchImage(td, uri) == [td EXCEPT !.containerDefinitions[1].image = uri]

\* jq: `del(...)`
DelReadOnly(td) == [f \in (DOMAIN td) \ ReadOnlyFields |-> td[f]]

\* the jq filter that writes taskdef.json
TaskDefJson(td, uri) == DelReadOnly(PatchImage(td, uri))

\* the fields the platform fills in when it registers revision number n
Registration(n, who) ==
    [ taskDefinitionArn |-> <<"task-definition/Task", ":", ToString(n)>>,
      revision |-> n,
      status |-> "ACTIVE",
      requiresAttributes |-> {"ecs.capability.task-eni"},
      compatibilities |-> {"EC2", "FARGATE"},
      registeredAt |-> n,
      registeredBy |-> who ]

\* aws ecs register-task-definition --cli-input-json file://taskdef.json, by
\* execution e (0: by the stack)
RegisterTaskDefinition(tds, json, e) ==
    Append(tds, [by |-> e,
                 def |-> json @@ Registration(Len(tds) + 1,
                                              IF e = 0 THEN "cloudformation"
                                              ELSE "EcsDeployProject")])

\* aws ecs describe-task-definition --task-definition $ECS_TASKDEF: the latest
\* revision of the family
DescribeTaskDefinition(tds) == tds[Len(tds)].def

\* the image reference of a revision
ImageOf(r) == r.def.containerDefinitions[1].image

\* the deployment configuration the stack declares on the FargateService
StackPolicy ==
    [ maximumPercent |-> "unset", minimumHealthyPercent |-> "50",
      deploymentCircuitBreaker |-> [enable |-> "true", rollback |-> "unset"] ]

\* A rolling policy without rollback.
RollingPolicyNoRollback ==
    [ maximumPercent |-> "200", minimumHealthyPercent |-> "50",
      deploymentCircuitBreaker |-> [enable |-> "true", rollback |-> "unset"] ]

\* --deployment-configuration "maximumPercent=200,minimumHealthyPercent=50,
\* deploymentCircuitBreaker={enable=true,rollback=true}"
RollingPolicy ==
    [ maximumPercent |-> "200", minimumHealthyPercent |-> "50",
      deploymentCircuitBreaker |-> [enable |-> "true", rollback |-> "true"] ]

\* echo $VALUE > file, in the working directory dir
WriteFile(files, dir, file, value) ==
    {f \in files : f[1] # dir \o file} \cup {<<dir \o file, value>>}

\* the working directory as the prefix of the files written in it
Cwd(dir) == IF dir = <<>> THEN <<>> ELSE dir \o <<"/">>

FileContent(files, path) == (CHOOSE f \in files : f[1] = path)[2]
HasFile(files, path) == \E f \in files : f[1] = path

\* `desiredCount: props.serviceProps?.desiredCount ?? 1`
DesiredCount(p) == Coalesce(OptNum(p.serviceProps, "desiredCount"), DefaultDesiredCount)

\* the running tasks of the service: those of the PRIMARY deployment and those
\* of the older deployments; provisioning has brought the service to
\* desiredCount tasks of the stack's revision
SteadyTasks(p) == [primary |-> DesiredCount(p), active |-> 0]

\* update-service with a new task definition starts a deployment, which is
\* PRIMARY at once; the tasks that run belong to the older deployments
NewDeployment(tasks) == [primary |-> 0, active |-> tasks.primary + tasks.active]

\* services[0].runningCount: the running tasks of all deployments
RunningCount(tasks) == tasks.primary + tasks.active

IdleExec ==
    [ pc |-> "idle", commit |-> 0, cwd |-> <<>>, tagTime |-> 0,
      IMAGE_TAG |-> <<>>, IMAGE_DIGEST |-> <<>>, IMAGE_URI |-> <<>>,
      repoDigests |-> <<>>, files |-> {}, artifact |-> {},
      DEPLOY_IMAGE_URI |-> <<>>, CURRENT_TASK_DEF |-> [none |-> TRUE],
      taskdefJson |-> [none |-> TRUE], NEW_TASK_DEF_ARN |-> 0,
      attempt |-> 0, elapsed |-> 0,
      RUNNING_COUNT |-> 0, DESIRED_COUNT |-> 0, DEPLOYMENT_STATUS |-> "",
      waited |-> FALSE, log |-> {}, exitCode |-> -1 ]

SetExec(e, new) == exec' = [exec EXCEPT ![e] = new]

\* Source stage: the GitHub source action hands the head of the branch to the
\* execution: the commit of the previous execution or the next one.
\* Executions are numbered in the order they are triggered.
SourceAction(e) ==
    /\ exec[e].pc = "idle"
    /\ \A d \in Execs : d < e => exec[d].pc # "idle"
    /\ \E c \in Commits :
         /\ IF e = 1 THEN c = 1 ELSE c \in {exec[e - 1].commit, exec[e - 1].commit + 1}
         /\ SetExec(e, [exec[e] EXCEPT !.pc = "source", !.commit = c])
    /\ UNCHANGED <<stackVars, now, ecrTags, ecrImages, taskdefs, service>>

\* the words the shell splits an unquoted string into
ShellWords(s) == SelectSeq(Split(s, " "), LAMBDA w : w # <<>>)

\* the directory `cd ${this.rootDir}` enters: the string is not quoted, so cd
\* is handed its words and enters the first; without a word it enters $HOME
CdTarget(dir) ==
    IF ShellWords(dir) = <<>> THEN <<"$HOME">> ELSE ShellWords(dir)[1]

\* Build project, pre_build: cd rootDir; (Nixpacks: install, generate the
\* Dockerfile;) export IMAGE_TAG=$(date +%Y%m%d%H%M%S); registry login.
\* The checkout holds the directory rootDir names; a directory of another
\* name may be missing, and then cd fails and with it the phase.
BuildPreBuild(e) ==
    /\ exec[e].pc = "source"
    /\ LET dir == IF Truthy(RootDir(props)) THEN CdTarget(RootDir(props)) ELSE <<>> IN
       \E found \in BOOLEAN :
         /\ dir = RootDir(props) => found
         /\ IF found
            THEN SetExec(e, [exec[e] EXCEPT
                               !.pc = "prebuilt",
                               !.cwd = dir,
                               !.tagTime = now,
                               !.IMAGE_TAG = DateTag(now),
                               !.files = IF props.nixpacks
                                         THEN {<<Cwd(dir) \o <<".nixpacks/Dockerfile">>,
                                                 <<"generated">>>>}
                                         ELSE {}])
            ELSE SetExec(e, [exec[e] EXCEPT !.pc = "buildFailed"])
    /\ UNCHANGED <<stackVars, now, ecrTags, ecrImages, taskdefs, service>>

\* Build project, build: docker build -t $ECR_REPO:$IMAGE_TAG; docker push.
\* The push moves the tag in the registry to this image and records the repo
\* digest in the build host's daemon.
BuildBuild(e) ==
    /\ exec[e].pc = "prebuilt"
    /\ LET d == Digest(exec[e].commit) IN
       /\ ecrTags' = {td \in ecrTags : td[1] # exec[e].IMAGE_TAG}
                     \cup {<<exec[e].IMAGE_TAG, d>>}
       /\ ecrImages' = ecrImages \cup {d}
       /\ SetExec(e, [exec[e] EXCEPT !.pc = "built",
                                     !.repoDigests = <<EcrRepo(props) \o <<"@">> \o d>>])
    /\ UNCHANGED <<stackVars, now, taskdefs, service>>

\* Build project, build: docker build or docker push fails; the build action
\* fails and the execution stops before the Deploy stage.
BuildFails(e) ==
    /\ exec[e].pc = "prebuilt"
    /\ SetExec(e, [exec[e] EXCEPT !.pc = "buildFailed"])
    /\ UNCHANGED <<stackVars, now, ecrTags, ecrImages, taskdefs, service>>

\* Build project, post_build: resolve IMAGE_DIGEST, export IMAGE_URI, write
\* the three files; then the files named by artifacts.files become BuildOutput.
\* When no file matches artifacts.files the upload fails and with it the build.
BuildPostBuild(e) ==
    /\ exec[e].pc = "built"
    /\ LET digest == CutField2(InspectRepoDigest(e))
           uri    == ImageUri(EcrRepo(props), exec[e].IMAGE_TAG, digest)
           dir    == Cwd(exec[e].cwd)
           files  == WriteFile(WriteFile(WriteFile(exec[e].files,
                         dir, <<"imageUri.txt">>, uri),
                         dir, <<"imageTag.txt">>, exec[e].IMAGE_TAG),
                         dir, <<"imageDigest.txt">>, digest)
           output == {f \in files : f[1] \in ArtifactFiles(props)}
       IN  SetExec(e, [exec[e] EXCEPT !.pc = IF output = {} THEN "buildFailed"
                                             ELSE "buildSucceeded",
                                      !.IMAGE_DIGEST = digest,
                                      !.IMAGE_URI = uri,
                                      !.files = files,
                                      !.artifact = output])
    /\ UNCHANGED <<stackVars, now, ecrTags, ecrImages, taskdefs, service>>

\* A Deploy stage that starts whenever the Build stage has ended.
BuildStageEnded(e) == exec[e].pc \in {"buildSucceeded", "buildFailed"}

\* the execution leaves the Build stage for the Deploy stage: BuildAction
\* succeeded and BuildOutput is handed on
BuildStageSucceeded(e) == exec[e].pc = "buildSucceeded"

\* Deploy project, pre_build: IMAGE_URI=$(cat imageUri.txt) from BuildOutput,
\* describe the latest revision of the family, patch its image with jq and
\* drop the fields registration does not take.  A missing file fails the stage.
DeployPreBuild(e) ==
    /\ BuildStageSucceeded(e)
    /\ IF HasFile(exec[e].artifact, DeployImageUriFile(props))
       THEN LET uri     == FileContent(exec[e].artifact, DeployImageUriFile(props))
                current == DescribeTaskDefinition(taskdefs)
            IN  SetExec(e, [exec[e] EXCEPT
                              !.pc = "deployPrepared",
                              !.DEPLOY_IMAGE_URI = uri,
                              !.CURRENT_TASK_DEF = current,
                              !.taskdefJson = TaskDefJson(current, uri)])
       ELSE SetExec(e, [exec[e] EXCEPT !.pc = "deployFailed", !.exitCode = 1])
    /\ UNCHANGED <<stackVars, now, ecrTags, ecrImages, taskdefs, service>>

\* Deploy project, build, up to the monitoring loop, in one step: register
\* taskdef.json as a new revision, set the rolling deployment configuration,
\* point the service at the new revision.
DeployBuild(e) ==
    /\ exec[e].pc = "deployPrepared"
    /\ taskdefs' = RegisterTaskDefinition(taskdefs, exec[e].taskdefJson, e)
    /\ service' = [taskDefinition |-> Len(taskdefs) + 1,
                   deploymentConfiguration |-> RollingPolicy,
                   tasks |-> NewDeployment(service.tasks)]
    /\ SetExec(e, [exec[e] EXCEPT !.pc = "serviceUpdated",
                                  !.NEW_TASK_DEF_ARN = Len(taskdefs) + 1,
                                  !.attempt = 1,
                                  !.log = @ \cup {"Monitoring deployment progress..."}])
    /\ UNCHANGED <<stackVars, now, ecrTags, ecrImages>>

\* a second passes on the build hosts' clock; only `date` in pre_build reads
\* the clock, so the seconds that pass while no build is about to read it
\* are folded into those that pass while one is
Tick ==
    /\ now < ClockStart + MaxTicks
    /\ \E e \in Execs : exec[e].pc = "source"
    /\ now' = now + 1
    /\ UNCHANGED <<stackVars, exec, ecrTags, ecrImages, taskdefs, service>>

\* descriptors of a stack with a pipeline, over the build configurations
PipelineDescriptors ==
    [ env : {FullEnv},
      application : {<<"A", "b">>},
      service : {<<"a", "B">>},
      environment : {<<"b">>},
      domain : {Undefined},
      hostedZoneId : {Undefined},
      regionalCertificateArn : {Undefined},
      accessTokenSecretArn : {<<"arn:aws:secretsmanager:token">>},
      sourceProps : {[defined |-> TRUE, owner |-> <<"thunder-so">>,
                      repo |-> <<"cdk-webservice">>, branchOrRef |-> <<"main">>]},
      eventTarget : {Undefined},
      debug : {FALSE},
      nixpacks : BOOLEAN,
      rootDir : {Undefined, <<"a", "p", "p", "/">>},
      serviceProps : {NoServiceProps} ]

\* the task definition the stack declares: the container image is the CDK
\* asset built from rootDir by ContainerImage.fromAsset
StackTaskDef(p) ==
    [ family |-> "Task",
      cpu |-> ToString(Coalesce(OptNum(p.serviceProps, "cpu"), DefaultCpu)),
      memory |-> ToString(Coalesce(OptNum(p.serviceProps, "memorySize"), DefaultMemory)),
      runtimePlatform |-> TaskArchitecture(p),
      requiresCompatibilities |-> {"FARGATE"},
      taskRoleArn |-> "TaskRole",
      executionRoleArn |-> "ExecutionRole",
      containerDefinitions |->
          <<[ name |-> p.service \o <<"-container">>,
              image |-> <<"cdk-assets", ":", "assethash">>,
              portMappings |-> <<[containerPort |-> ContainerPort(p), protocol |-> "tcp"]>>,
              healthCheck |-> HealthCheckCommand(p),
              logConfiguration |-> <<"/webservice/">> \o ServicePrefix(p) \o <<"-logs">>,
              environment |-> {<<"HOSTNAME", "0.0.0.0">>},
              secrets |-> {} ]>> ]

\* the revision provisioning the stack registers
AssetRevision(p) == RegisterTaskDefinition(<<>>, StackTaskDef(p), 0)[1]

\* the stack is constructed and provisioned; no execution has started
PipelineInit ==
    /\ props \in PipelineDescriptors
    /\ pc = "done"
    /\ error = NoError
    /\ declared = ServiceResources(props) \cup PipelineResources(props)
    /\ fsOk = TRUE
    /\ run = 1
    /\ deployed = PhysicalNames(declared)
    /\ now = ClockStart
    /\ exec = [e \in Execs |-> IdleExec]
    /\ ecrTags = {}
    /\ ecrImages = {}
    /\ taskdefs = <<AssetRevision(props)>>
    /\ service = [taskDefinition |-> 1, deploymentConfiguration |-> StackPolicy,
                  tasks |-> SteadyTasks(props)]

PipelineNext ==
    \/ \E e \in Execs :
         \/ SourceAction(e)
         \/ BuildPreBuild(e)
         \/ BuildBuild(e)
         \/ BuildFails(e)
         \/ BuildPostBuild(e)
         \/ DeployPreBuild(e)
         \/ DeployBuild(e)
    \/ Tick

SpecPipeline == PipelineInit /\ [][PipelineNext]_vars

----------------------------------------------------------------------------
(* The deploy specification, command by command *)

\* `for i in {1..30}`
PollAttempts == 30
\* `sleep 30`
SleepSeconds == 30
\* `timeout 900 aws ecs wait services-stable`
WaitTimeoutSeconds == 900
\* the deploy project: `timeout: Duration.minutes(15)`
ProjectTimeoutMinutes == 15

\* what services[0].deployments[0].status is compared with, and one more
DeploymentStatuses == {"PRIMARY", "FAILED", "ACTIVE"}

\* CodePipeline runs one execution at a time through the Deploy stage
DeployExecs == {1}

\* A loop body that tests for success only.
PollOutcomeNoFailure(status, running, desired) ==
    IF status = "PRIMARY" /\ running = desired THEN "break" ELSE "sleep"

\* the body of the monitoring loop after the three describe-services calls:
\* `if PRIMARY and running = desired then break; if FAILED then exit 1; sleep 30`
PollOutcome(status, running, desired) ==
    IF status = "PRIMARY" /\ running = desired THEN "break"
    ELSE IF status = "FAILED" THEN "exit"
    ELSE "sleep"

\* CodeBuild stops a build that is not complete after the project timeout.
\* The seconds counted are those of `sleep` and `wait` alone; every other
\* command and the provisioning of the build host take time too, so a build
\* whose sleeps and waits add up to the timeout has exceeded it.
ProjectTimedOut(seconds) == seconds >= ProjectTimeoutMinutes * 60

\* A loop that polls again after every sleep.
AfterSleepPollAgain(attempt, seconds) == "poll"

\* what follows a `sleep 30`: the build is stopped, or the loop goes to the
\* next i, or `{1..30}` is exhausted and the next command runs
AfterSleep(attempt, seconds) ==
    IF ProjectTimedOut(seconds) THEN "timedOut"
    ELSE IF attempt < PollAttempts THEN "poll"
    ELSE "wait"

\* how long `timeout 900 aws ecs wait services-stable` can run
WaitDurations == {0, WaitTimeoutSeconds \div 2, WaitTimeoutSeconds}

WaitWarning == "Deployment completed with timeout - check ECS console for final status"
DeployedMessage == "ECS service deployed successfully"

\* a command of the deploy specification exits non-zero: the phase fails and
\* the commands after it do not run
CommandFails(e) ==
    /\ SetExec(e, [exec[e] EXCEPT !.pc = "deployFailed", !.exitCode = 1])
    /\ UNCHANGED <<taskdefs, service>>

\* NEW_TASK_DEF_ARN=$(aws ecs register-task-definition --cli-input-json
\* file://taskdef.json ...)
DeployRegister(e) ==
    /\ exec[e].pc = "deployPrepared"
    /\ \E ok \in BOOLEAN :
         IF ok
         THEN /\ taskdefs' = RegisterTaskDefinition(taskdefs, exec[e].taskdefJson, e)
              /\ SetExec(e, [exec[e] EXCEPT !.pc = "registered",
                                            !.NEW_TASK_DEF_ARN = Len(taskdefs) + 1])
              /\ UNCHANGED service
         ELSE CommandFails(e)
    /\ UNCHANGED <<stackVars, now, ecrTags, ecrImages>>

\* aws ecs update-service --deployment-configuration "maximumPercent=200,..."
DeployConfigure(e) ==
    /\ exec[e].pc = "registered"
    /\ \E ok \in BOOLEAN :
         IF ok
         THEN /\ service' = [service EXCEPT !.deploymentConfiguration = RollingPolicy]
              /\ SetExec(e, [exec[e] EXCEPT !.pc = "configured"])
              /\ UNCHANGED taskdefs
         ELSE CommandFails(e)
    /\ UNCHANGED <<stackVars, now, ecrTags, ecrImages>>

\* aws ecs update-service --task-definition $NEW_TASK_DEF_ARN; echo "Monitoring
\* deployment progress..."
DeployUpdateService(e) ==
    /\ exec[e].pc = "configured"
    /\ \E ok \in BOOLEAN :
         IF ok
         THEN /\ service' = [service EXCEPT !.taskDefinition = exec[e].NEW_TASK_DEF_ARN,
                                             !.tasks = NewDeployment(@)]
              /\ SetExec(e, [exec[e] EXCEPT
                                !.pc = "serviceUpdated",
                                !.attempt = 1,
                                !.log = @ \cup {"Monitoring deployment progress..."}])
              /\ UNCHANGED taskdefs
         ELSE CommandFails(e)
    /\ UNCHANGED <<stackVars, now, ecrTags, ecrImages>>

\* one pass of the loop body up to `sleep`: the three describe-services calls
\* report the running tasks of the service, its desired count and whatever
\* status the platform gives deployments[0]; then break, exit 1 or go to sleep
DeployPoll(e) ==
    /\ exec[e].pc = "serviceUpdated"
    /\ \E status \in DeploymentStatuses :
         LET running == RunningCount(service.tasks)
             desired == DesiredCount(props)
             seen == [exec[e] EXCEPT !.RUNNING_COUNT = running,
                                     !.DESIRED_COUNT = desired,
                                     !.DEPLOYMENT_STATUS = status]
             out  == PollOutcome(status, running, desired)
         IN  SetExec(e,
                CASE out = "break" ->
                       [seen EXCEPT !.pc = "waiting",
                                    !.log = @ \cup {"Deployment successful"}]
                  [] out = "exit" ->
                       [seen EXCEPT !.pc = "deployFailed", !.exitCode = 1,
                                    !.log = @ \cup {"Deployment failed"}]
                  [] OTHER -> [seen EXCEPT !.pc = "sleeping"])
    /\ UNCHANGED <<stackVars, now, ecrTags, ecrImages, taskdefs, service>>

\* `sleep 30; done`
DeploySleep(e) ==
    /\ exec[e].pc = "sleeping"
    /\ LET seconds == exec[e].elapsed + SleepSeconds
           next    == AfterSleep(exec[e].attempt, seconds)
       IN  SetExec(e,
              CASE next = "timedOut" ->
                     [exec[e] EXCEPT !.pc = "timedOut", !.elapsed = seconds]
                [] next = "poll" ->
                     [exec[e] EXCEPT !.pc = "serviceUpdated", !.elapsed = seconds,
                                     !.attempt = @ + 1]
                [] OTHER -> [exec[e] EXCEPT !.pc = "waiting", !.elapsed = seconds])
    /\ UNCHANGED <<stackVars, now, ecrTags, ecrImages, taskdefs, service>>

\* `timeout 900 aws ecs wait services-stable ... || echo "Deployment completed
\* with timeout ..."`, then `echo "ECS service deployed successfully"`.  The
\* wait returns 0 when the service is stable, non-zero when the waiter gives
\* up or `timeout` ends it after 900 seconds.
DeployWait(e) ==
    /\ exec[e].pc = "waiting"
    /\ \E d \in WaitDurations, stable \in BOOLEAN :
         /\ d = WaitTimeoutSeconds => ~stable
         /\ LET seconds == exec[e].elapsed + d IN
            IF d > 0 /\ ProjectTimedOut(seconds)
            THEN SetExec(e, [exec[e] EXCEPT !.pc = "timedOut", !.elapsed = seconds,
                                            !.waited = TRUE])
            ELSE SetExec(e, [exec[e] EXCEPT
                               !.pc = "deploySucceeded", !.elapsed = seconds,
                               !.waited = TRUE, !.exitCode = 0,
                               !.log = @ \cup (IF stable THEN {} ELSE {WaitWarning})
                                         \cup {DeployedMessage}])
    /\ UNCHANGED <<stackVars, now, ecrTags, ecrImages, taskdefs, service>>

DeployNext ==
    \E e \in DeployExecs :
        \/ SourceAction(e)
        \/ BuildPreBuild(e)
        \/ BuildBuild(e)
        \/ BuildFails(e)
        \/ BuildPostBuild(e)
        \/ DeployPreBuild(e)
        \/ DeployRegister(e)
        \/ DeployConfigure(e)
        \/ DeployUpdateService(e)
        \/ DeployPoll(e)
        \/ DeploySleep(e)
        \/ DeployWait(e)

\* The platform rolls the service over to the PRIMARY deployment under
\* maximumPercent=200 and minimumHealthyPercent=50: it starts a task of the new
\* revision while fewer than desiredCount run and the total stays within twice
\* desiredCount, or stops a task of an older revision while at least half of
\* desiredCount, rounded up, keep running.
EcsRollout ==
    /\ LET desired == DesiredCount(props)
           tasks   == service.tasks
       IN  \/ /\ tasks.primary < desired
              /\ RunningCount(tasks) < 2 * desired
              /\ service' = [service EXCEPT !.tasks.primary = @ + 1]
           \/ /\ tasks.active > 0
              /\ 2 * (RunningCount(tasks) - 1) >= desired
              /\ service' = [service EXCEPT !.tasks.active = @ - 1]
    /\ UNCHANGED <<stackVars, now, exec, ecrTags, ecrImages, taskdefs>>

DeployStageNext == DeployNext \/ EcsRollout

SpecDeploy == PipelineInit /\ [][DeployStageNext]_vars

\* the deploy stage over root directories with slashes and blanks
PathDescriptors ==
    [ env : {FullEnv},
      application : {<<"A", "b">>},
      service : {<<"a", "B">>},
      environment : {<<"b">>},
      domain : {Undefined},
      hostedZoneId : {Undefined},
      regionalCertificateArn : {Undefined},
      accessTokenSecretArn : {<<"arn:aws:secretsmanager:token">>},
      sourceProps : {[defined |-> TRUE, owner |-> <<"thunder-so">>,
                      repo |-> <<"cdk-webservice">>, branchOrRef |-> <<"main">>]},
      eventTarget : {Undefined},
      debug : {FALSE},
      nixpacks : {FALSE},
      rootDir : {Undefined, <<>>, <<"/">>, <<"a", "p", "p">>, <<"/", "a", "/", "p", "/">>,
                 <<"a", " ", "p">>, <<" ", "a">>, <<" ">>},
      serviceProps : {NoServiceProps} ]

PathsInit ==
    /\ props \in PathDescriptors
    /\ pc = "done"
    /\ error = NoError
    /\ declared = ServiceResources(props) \cup PipelineResources(props)
    /\ fsOk = TRUE
    /\ run = 1
    /\ deployed = PhysicalNames(declared)
    /\ now = ClockStart
    /\ exec = [e \in Execs |-> IdleExec]
    /\ ecrTags = {}
    /\ ecrImages = {}
    /\ taskdefs = <<AssetRevision(props)>>
    /\ service = [taskDefinition |-> 1, deploymentConfiguration |-> StackPolicy,
                  tasks |-> SteadyTasks(props)]

SpecPaths == PathsInit /\ [][DeployStageNext]_vars

\* the build hosts run every command they have started to its end
SpecDeployFair == SpecDeploy /\ WF_vars(DeployNext)

----------------------------------------------------------------------------
(* Properties of the WebServiceStack constructor, under Spec *)

Finished == pc \in {"done", "failed"}

MissingSourcePropsError ==
    "Missing sourceProps: Github owner, repo and branch/ref required."

\* the constructor of ServiceConstruct has run to its last statement
ServiceConstructed == \E r \in declared : r.construct = "Service" /\ r.id = "LoadBalancerDNS"

DeclaredBy(construct) == {r \in declared : r.construct = construct}

NameOf(construct, id) ==
    (CHOOSE r \in declared : r.construct = construct /\ r.id = id).name

IsDeclared(construct, id) ==
    \E r \in declared : r.construct = construct /\ r.id = id

\* C1: a descriptor whose application, service or environment is missing or
\* empty makes the constructor fail with an error, and nothing of the Service,
\* Pipeline or Events constructs is declared when it fails (nor before).
C1_MissingIdentityFailsBeforeAnyDeclaration ==
    (\/ props.application \in {Undefined, <<>>}
     \/ props.service \in {Undefined, <<>>}
     \/ props.environment \in {Undefined, <<>>})
    => /\ declared = {}
       /\ pc \in {"start", "envChecked", "failed"}
       /\ (pc = "failed" => error # NoError)
       /\ (pc # "failed" => ENABLED StackNext)

C1_Witness ==
    /\ pc = "failed"
    /\ error = "Mandatory stack properties missing."
    /\ props.service = <<>>
    /\ Truthy(props.application) /\ Truthy(props.environment)

\* C2: a descriptor with domain set but hostedZoneId or regionalCertificateArn
\* unset never yields a constructed stack.
C2_PartialDomainNeverConstructs ==
    (/\ Truthy(props.domain)
     /\ (~Truthy(props.hostedZoneId) \/ ~Truthy(props.regionalCertificateArn)))
    => pc # "done"

\* C3: with accessTokenSecretArn set and owner, repo or branchOrRef unset the
\* constructor fails with an error (the sourceProps error once ServiceConstruct
\* has completed), and no Pipeline or Events resource is ever declared.
C3_IncompleteSourcePropsDeclaresNoPipeline ==
    (/\ Truthy(props.accessTokenSecretArn)
     /\ (\/ ~props.sourceProps.defined
         \/ props.sourceProps.owner \in {Undefined, <<>>}
         \/ props.sourceProps.repo \in {Undefined, <<>>}
         \/ props.sourceProps.branchOrRef \in {Undefined, <<>>}))
    => /\ DeclaredBy("Pipeline") = {} /\ DeclaredBy("Events") = {}
       /\ pc # "done"
       /\ (pc = "failed" => error # NoError)
       /\ (pc = "failed" /\ ServiceConstructed => error = MissingSourcePropsError)
       /\ (pc # "failed" => ENABLED StackNext)

C3_Witness ==
    /\ pc = "failed"
    /\ error = MissingSourcePropsError
    /\ Truthy(props.accessTokenSecretArn)
    /\ props.sourceProps.defined
    /\ props.sourceProps.owner = Undefined
    /\ Truthy(props.sourceProps.repo) /\ Truthy(props.sourceProps.branchOrRef)

ConfigurationErrors ==
    { "Must provide AWS account and region.",
      "Mandatory stack properties missing.",
      MissingSourcePropsError }

\* C4: whenever the constructor ends in a configuration error, nothing has
\* been declared.
C4_ConfigurationErrorBeforeAnyDeclaration ==
    (pc = "failed" /\ error \in ConfigurationErrors) => declared = {}

\* C5: a descriptor without env, or whose env lacks account or region, never
\* yields a constructed stack.
C5_MissingAccountOrRegionNeverConstructs ==
    (\/ ~props.env.defined
     \/ ~Truthy(props.env.account)
     \/ ~Truthy(props.env.region))
    => pc # "done"

HttpListeners ==
    {r \in declared : r.type = "Listener" /\ r.cfg.port = HttpPort}
HttpsListeners ==
    {r \in declared : r.type = "Listener" /\ r.cfg.port = HttpsPort}
AliasRecords == {r \in declared : r.type = "ARecord"}
TargetGroups == {r \in declared : r.type = "TargetGroup"}

Last(seq) == seq[Len(seq)]
HasRedirect(l) == \E i \in 1..Len(l.cfg.actions) : l.cfg.actions[i].kind = "redirect"

\* C9: a constructed ServiceConstruct has exactly one HTTP listener, on port 80,
\* declared with a forward to the one target group; the HTTPS listener, the
\* redirect and the alias record are declared exactly when domain,
\* hostedZoneId and regionalCertificateArn are all set; otherwise none of the
\* three is declared and the HTTP listener's action stays the forward.
C9_HttpsWiringIffDomainGroupComplete ==
    ServiceConstructed =>
        LET all3 == /\ props.domain \notin {Undefined, <<>>}
                    /\ props.hostedZoneId \notin {Undefined, <<>>}
                    /\ props.regionalCertificateArn \notin {Undefined, <<>>}
        IN  /\ Cardinality(HttpListeners) = 1
            /\ Cardinality(TargetGroups) = 1
            /\ \A l \in HttpListeners :
                 /\ l.cfg.protocol = "HTTP"
                 /\ l.cfg.actions[1] = ForwardTo({tg.id : tg \in TargetGroups})
                 /\ (HasRedirect(l) <=> all3)
                 /\ (~all3 => l.cfg.actions = <<ForwardTo({tg.id : tg \in TargetGroups})>>)
                 /\ (all3 => Last(l.cfg.actions) = RedirectHttps)
            /\ (HttpsListeners # {} <=> all3)
            /\ \A l \in HttpsListeners :
                 l.cfg.actions = <<ForwardTo({tg.id : tg \in TargetGroups})>>
            /\ (AliasRecords # {} <=> all3)

C9_Witness ==
    /\ ServiceConstructed
    /\ Truthy(props.domain) /\ Truthy(props.hostedZoneId)
    /\ Truthy(props.regionalCertificateArn)
    /\ HttpsListeners # {} /\ AliasRecords # {}

----------------------------------------------------------------------------
(* Properties of the service settings, under SpecService *)

CfgOf(construct, id) ==
    (CHOOSE r \in declared : r.construct = construct /\ r.id = id).cfg

\* the port in the last path segment of the health check command
HealthCheckPortOf(cfg) == cfg.healthCheck[2][2]

PortSetTo(v) == props.serviceProps.defined /\ props.serviceProps.port = Some(v)
PortUnset == ~props.serviceProps.defined \/ props.serviceProps.port = NoNumber

\* the three places that resolve the port agree on port
PortsAre(port) ==
    /\ CfgOf("Service", "Container").portMappings[1].containerPort = port
    /\ HealthCheckPortOf(CfgOf("Service", "Container")) = ToString(port)
    /\ CfgOf("Service", "targetGroup").port = port

\* the task size, the replica count and the values handed to the constructs
SizingDefaultsApplied ==
    LET sp   == props.serviceProps
        task == CfgOf("Service", "Task")
        cpu  == IF sp.defined /\ sp.cpu.defined THEN sp.cpu.value ELSE 256
        mem  == IF sp.defined /\ sp.memorySize.defined THEN sp.memorySize.value ELSE 512
    IN  /\ task.cpu = ToString(cpu)
        /\ task.memoryMiB = ToString(mem)
        /\ CfgOf("Service", "FargateService").desiredCount =
             (IF sp.defined /\ sp.desiredCount.defined THEN sp.desiredCount.value ELSE 1)
        /\ CfgOf("Stack", "Service") = [cpu |-> cpu, memory |-> mem]
        /\ IsDeclared("Stack", "Pipeline") =>
             /\ CfgOf("Stack", "Pipeline") = [cpu |-> cpu, memory |-> mem]
             /\ ToString(CfgOf("Stack", "Pipeline").cpu) = task.cpu
             /\ ToString(CfgOf("Stack", "Pipeline").memory) = task.memoryMiB

\* C13 as stated: with port unset the port mapping, the health check and the
\* target group use 3000, with port set to p all three use p; desiredCount
\* defaults to 1, cpu and memorySize to 256 and 512, and the Pipeline
\* construct is handed the values of the task definition.
C13_DefaultsAppliedForEveryPort ==
    ServiceConstructed =>
        /\ (PortUnset => PortsAre(3000))
        /\ \A v \in {0, 8080} : PortSetTo(v) => PortsAre(v)
        /\ SizingDefaultsApplied

\* C13, amended: as stated for every port other than 0; a port of 0 is taken
\* as unset and all three places use 3000.
C13_DefaultsAppliedForNonZeroPort ==
    ServiceConstructed =>
        /\ (PortUnset \/ PortSetTo(0) => PortsAre(3000))
        /\ (PortSetTo(8080) => PortsAre(8080))
        /\ SizingDefaultsApplied

C13_Witness ==
    /\ pc = "done"
    /\ IsDeclared("Stack", "Pipeline")
    /\ PortSetTo(8080) /\ PortsAre(8080)
    /\ props.serviceProps.cpu = NoNumber
    /\ props.serviceProps.memorySize = Some(1024)
    /\ props.serviceProps.desiredCount = NoNumber

\* C14: with serviceProps.architecture unset the declared task definition's
\* CPU architecture is ARM64.
C14_DefaultArchitectureIsArm64 ==
    (/\ IsDeclared("Service", "Task")
     /\ (~props.serviceProps.defined \/ props.serviceProps.architecture = NoArch))
    => CfgOf("Service", "Task").cpuArchitecture = "ARM64"

----------------------------------------------------------------------------
(* Properties of the resource names, under SpecNames *)

\* C10: the prefix ServiceConstruct resolves (the load balancer's name) is at
\* most 23 characters long and has no upper-case letter, PipelineConstruct
\* resolves the same string for the same descriptor, and a provisioning run
\* with an unchanged descriptor declares exactly the names already provisioned.
C10_PrefixBoundedLowerCaseAndStable ==
    /\ IsDeclared("Service", "ALB") =>
         LET prefix == NameOf("Service", "ALB") IN
         /\ Len(prefix) <= 23
         /\ \A i \in 1..Len(prefix) : prefix[i] \notin UpperCase
         /\ NameOf("Service", "Vpc") = prefix \o <<"-vpc">>
         /\ IsDeclared("Pipeline", "WebServicePipeline") =>
              /\ NameOf("Pipeline", "ServiceEcrRepo") = prefix \o <<"-repo">>
              /\ NameOf("Pipeline", "WebServicePipeline") = prefix \o <<"-pipeline">>
    /\ (pc = "done" /\ run >= 1) => PhysicalNames(declared) = deployed

C10_Witness ==
    /\ pc = "done" /\ run >= 1
    /\ IsDeclared("Pipeline", "WebServicePipeline")
    /\ Len(props.application) > FieldLen
    /\ "B" \in {props.application[i] : i \in 1..Len(props.application)}
    /\ Len(NameOf("Service", "ALB")) = 23

\* the identity tuple of a descriptor
IdentityOf(p) == <<p.application, p.service, p.environment>>

\* C11: the descriptor of the constructed stack shares its resource name
\* prefix with no descriptor of a different (application, service,
\* environment).
C11_PrefixInjective ==
    (pc = "done" /\ IsDeclared("Service", "ALB")) =>
        \A a, s, e \in Identities :
            LET q == [application |-> a, service |-> s, environment |-> e] IN
            IdentityOf(q) # IdentityOf(props)
                => ServicePrefix(q) # NameOf("Service", "ALB")

\* sub occurs in s
Contains(s, sub) ==
    \E i \in 0..(Len(s) - Len(sub)) : SubSeq(s, i + 1, i + Len(sub)) = sub

ExplicitlyNamedTypes ==
    { "Vpc", "Cluster", "LogGroup", "Container", "FargateService", "TargetGroup",
      "LoadBalancer", "Repository", "PipelineProject", "Pipeline", "Rule", "Role" }

\* C12: every explicitly named resource of the Service, Pipeline and Events
\* constructs has a name that contains the prefix derived from application,
\* service and environment.
C12_EveryNameContainsPrefix ==
    \A r \in declared :
        (r.type \in ExplicitlyNamedTypes /\ r.name # Undefined)
            => Contains(r.name, ServicePrefix(props))

----------------------------------------------------------------------------
(* Properties of the pipeline executions, under SpecPipeline *)

\* the revisions registered by the deploy stage
DeployRevisions == { taskdefs[i] : i \in {j \in 1..Len(taskdefs) : taskdefs[j].by # 0} }

\* ref = repo <sep> id for a non-empty id without separators
SplitsAt(ref, repo, sep) ==
    /\ Len(ref) > Len(repo) + 1
    /\ SubSeq(ref, 1, Len(repo)) = repo
    /\ ref[Len(repo) + 1] = sep
    /\ \A i \in (Len(repo) + 2)..Len(ref) : ref[i] \notin {"@", ":"}

\* C6: the image reference of every revision the deploy stage registers is
\* <registry>@<digest>, the content of imageUri.txt of the same execution,
\* and is not <registry>:<tag>, with and without rootDir and Nixpacks.
C6_DeployedImageIsDigestReference ==
    \A r \in DeployRevisions :
        /\ SplitsAt(ImageOf(r), EcrRepo(props), "@")
        /\ ~SplitsAt(ImageOf(r), EcrRepo(props), ":")
        /\ SubSeq(ImageOf(r), Len(EcrRepo(props)) + 2, Len(ImageOf(r)))
             \in {Digest(c) : c \in Commits}
        /\ ImageOf(r) = FileContent(exec[r.by].files,
                                 Cwd(exec[r.by].cwd) \o <<"imageUri.txt">>)

C6_Witness ==
    /\ props.nixpacks
    /\ Truthy(props.rootDir)
    /\ \E r \in DeployRevisions : SplitsAt(ImageOf(r), EcrRepo(props), "@")

\* what the platform pulls for an image reference, given the registry now
Pulled(ref) ==
    IF SplitsAt(ref, EcrRepo(props), ":")
    THEN TagDigest(ecrTags, SubSeq(ref, Len(EcrRepo(props)) + 2, Len(ref)))
    ELSE IF SplitsAt(ref, EcrRepo(props), "@")
            /\ SubSeq(ref, Len(EcrRepo(props)) + 2, Len(ref)) \in ecrImages
         THEN SubSeq(ref, Len(EcrRepo(props)) + 2, Len(ref))
         ELSE <<>>

\* C7: under every interleaving of the executions, tag overwrites included,
\* the image that a revision registered by an execution's deploy stage pulls
\* is the image that execution's build stage built from its own commit.
C7_DeployedImageIsOwnBuild ==
    \A r \in DeployRevisions : Pulled(ImageOf(r)) = Digest(exec[r.by].commit)

\* two executions pushed different images under one tag, and the one whose
\* tag was overwritten has deployed
C7_Witness ==
    \E a, b \in Execs :
        /\ a # b
        /\ exec[a].IMAGE_TAG = exec[b].IMAGE_TAG
        /\ exec[a].commit # exec[b].commit
        /\ exec[a].pc = "serviceUpdated"
        /\ exec[b].pc \in {"built", "buildSucceeded", "deployPrepared", "serviceUpdated"}
        /\ TagDigest(ecrTags, exec[a].IMAGE_TAG) = Digest(exec[b].commit)

Tagged(e) == exec[e].pc \notin {"idle", "source"}

\* C8 as stated: any two executions of the build stage have different tags.
C8_TagsNeverCollide ==
    \A a, b \in Execs :
        (a # b /\ Tagged(a) /\ Tagged(b)) => exec[a].IMAGE_TAG # exec[b].IMAGE_TAG

\* C8, amended: two executions of the build stage that generate IMAGE_TAG at
\* different clock seconds have different tags (and two that generate it
\* within the same second have the same tag).
C8_TagsDifferAcrossSeconds ==
    \A a, b \in Execs :
        (a # b /\ Tagged(a) /\ Tagged(b)) =>
            (exec[a].IMAGE_TAG = exec[b].IMAGE_TAG <=> exec[a].tagTime = exec[b].tagTime)

\* two executions tagged a second apart, across a minute boundary
C8_Witness ==
    \E a, b \in Execs :
        /\ Tagged(a) /\ Tagged(b)
        /\ exec[b].tagTime = exec[a].tagTime + 1
        /\ exec[b].tagTime % 60 = 0
        /\ exec[a].IMAGE_TAG # exec[b].IMAGE_TAG

\* the positions of an execution inside the Deploy stage
DeployPcs == { "deployPrepared", "deployFailed", "serviceUpdated", "registered",
               "configured", "sleeping", "waiting", "timedOut", "deploySucceeded" }

StageNames(stages) == [i \in 1..Len(stages) |-> stages[i].stageName]

\* the declared pipeline: Source, Build, Deploy, one action each, each action
\* fed by the output of the stage before it
PipelineIsLinear ==
    LET stages == CfgOf("Pipeline", "WebServicePipeline").stages IN
    /\ StageNames(stages) = <<"Source", "Build", "Deploy">>
    /\ \A i \in 1..Len(stages) : Len(stages[i].actions) = 1
    /\ stages[1].actions[1].inputs = <<>>
    /\ \A i \in 2..Len(stages) :
         stages[i].actions[1].inputs = stages[i - 1].actions[1].outputs
    /\ \A i \in 1..2 : Len(stages[i].actions[1].outputs) = 1

\* C18: the declared pipeline is the linear sequence Source, Build, Deploy
\* with one action per stage, each consuming the output of the one before; an
\* execution is in the Deploy stage only with the artifact of its own
\* succeeded build, it enters the Deploy stage only from a succeeded build,
\* and an execution whose build failed stays failed: no deploy, no retry.
C18_LinearPipelineDeployOnlyAfterOwnBuild ==
    /\ [](/\ PipelineIsLinear
          /\ \A e \in Execs :
               exec[e].pc \in DeployPcs =>
                   /\ exec[e].artifact # {}
                   /\ exec[e].artifact \subseteq exec[e].files
                   /\ exec[e].IMAGE_DIGEST = Digest(exec[e].commit))
    /\ [][\A e \in Execs :
             /\ exec[e].pc = "buildFailed" => exec'[e].pc = "buildFailed"
             /\ (exec'[e].pc \in DeployPcs /\ exec[e].pc \notin DeployPcs)
                  => exec[e].pc = "buildSucceeded"]_vars

C18_Witness ==
    \E a, b \in Execs :
        /\ exec[a].pc = "buildFailed"
        /\ exec[b].pc = "serviceUpdated"
        /\ a < b

\* C19: a revision registered by the deploy stage has every field of the
\* revision the execution fetched, with the same value for every field that
\* registration takes, except for the image of the container, which is the
\* image read from the artifact; taskdef.json is the fetched revision without
\* the read-only fields.
C19_NewRevisionDiffersOnlyInImage ==
    \A i \in 1..Len(taskdefs) :
        taskdefs[i].by # 0 =>
            LET new == taskdefs[i].def
                e   == taskdefs[i].by
                cur == exec[e].CURRENT_TASK_DEF
            IN  /\ \E j \in 1..(i - 1) : taskdefs[j].def = cur
                /\ DOMAIN exec[e].taskdefJson = (DOMAIN cur) \ ReadOnlyFields
                /\ DOMAIN new = DOMAIN cur
                /\ \A f \in (DOMAIN cur) \ (ReadOnlyFields \cup {"containerDefinitions"}) :
                     new[f] = cur[f]
                /\ Len(new.containerDefinitions) = Len(cur.containerDefinitions)
                /\ \A c \in 1..Len(cur.containerDefinitions) :
                     /\ DOMAIN new.containerDefinitions[c] = DOMAIN cur.containerDefinitions[c]
                     /\ \A f \in (DOMAIN cur.containerDefinitions[c]) \ {"image"} :
                          new.containerDefinitions[c][f] = cur.containerDefinitions[c][f]
                /\ new.containerDefinitions[1].image = exec[e].DEPLOY_IMAGE_URI

\* a revision registered from a revision that another execution registered
C19_Witness ==
    \E i \in 1..Len(taskdefs) :
        /\ taskdefs[i].by # 0
        /\ exec[taskdefs[i].by].CURRENT_TASK_DEF.revision > 1
        /\ ImageOf(taskdefs[i]) # exec[taskdefs[i].by].CURRENT_TASK_DEF.containerDefinitions[1].image

----------------------------------------------------------------------------
(* Properties of the deploy stage, under SpecDeploy and SpecDeployFair *)

DeployEnded == {"deployFailed", "timedOut", "deploySucceeded"}

\* C15: once a poll has observed the deployment status FAILED the stage has
\* ended with exit code 1: the final wait has not run and "ECS service
\* deployed successfully" is not in the log.
C15_FailedStatusIsHardFailure ==
    \A e \in Execs :
        exec[e].DEPLOYMENT_STATUS = "FAILED" =>
            /\ exec[e].pc = "deployFailed"
            /\ exec[e].exitCode = 1
            /\ ~exec[e].waited
            /\ DeployedMessage \notin exec[e].log
            /\ "Deployment failed" \in exec[e].log

\* FAILED is observed after earlier iterations slept
C15_Witness ==
    \E e \in Execs :
        /\ exec[e].DEPLOYMENT_STATUS = "FAILED"
        /\ exec[e].attempt > 1
        /\ exec[e].pc = "deployFailed"

\* C16: a deploy stage that ended after all 30 polls, none of which saw the
\* service steady or the status FAILED, has logged the warning and ended
\* with exit code 0.
C16_ExhaustedPollingEndsSuccessfully ==
    \A e \in Execs :
        (/\ exec[e].pc \in DeployEnded
         /\ exec[e].attempt = PollAttempts
         /\ exec[e].DEPLOYMENT_STATUS # "FAILED"
         /\ "Deployment successful" \notin exec[e].log)
        => /\ exec[e].pc = "deploySucceeded"
           /\ exec[e].exitCode = 0
           /\ WaitWarning \in exec[e].log

AfterRegister ==
    {"registered", "configured", "serviceUpdated", "sleeping", "waiting",
     "timedOut", "deploySucceeded"}
AfterConfigure == AfterRegister \ {"registered"}
AfterUpdate    == AfterConfigure \ {"configured"}

\* C20: the deploy stage reads the artifact, registers the revision, applies
\* the rolling-update policy (200 / 50 / circuit breaker with rollback),
\* points the service at the new revision and only then polls; the service
\* always runs a registered revision, and a revision of the deploy stage only
\* under that policy.
C20_DeployStepsInOrder ==
    /\ service.taskDefinition \in 1..Len(taskdefs)
    /\ taskdefs[service.taskDefinition].by # 0 =>
         service.deploymentConfiguration =
             [ maximumPercent |-> "200", minimumHealthyPercent |-> "50",
               deploymentCircuitBreaker |-> [enable |-> "true", rollback |-> "true"] ]
    /\ \A e \in Execs :
         LET x == exec[e] IN
         /\ x.pc \in AfterRegister =>
              /\ x.DEPLOY_IMAGE_URI # <<>>
              /\ x.NEW_TASK_DEF_ARN \in 1..Len(taskdefs)
              /\ taskdefs[x.NEW_TASK_DEF_ARN].by = e
              /\ ImageOf(taskdefs[x.NEW_TASK_DEF_ARN]) = x.DEPLOY_IMAGE_URI
         /\ x.pc \in AfterConfigure =>
              service.deploymentConfiguration.deploymentCircuitBreaker.rollback = "true"
         /\ x.pc \in AfterUpdate => service.taskDefinition = x.NEW_TASK_DEF_ARN
         /\ x.pc \in {"deployPrepared", "registered", "configured"} =>
              /\ x.attempt = 0 /\ x.DEPLOYMENT_STATUS = ""
              /\ taskdefs[service.taskDefinition].by # e
         /\ x.attempt > 0 =>
              /\ x.pc \in AfterUpdate \cup {"deployFailed"}
              /\ service.taskDefinition = x.NEW_TASK_DEF_ARN

C20_Witness ==
    \E e \in Execs :
        /\ exec[e].pc = "sleeping"
        /\ service.taskDefinition = exec[e].NEW_TASK_DEF_ARN
        /\ taskdefs[service.taskDefinition].by = e
        /\ service.deploymentConfiguration = RollingPolicy

----------------------------------------------------------------------------
(* Properties of the generated build specification, under SpecBuild *)

\* the commands of a phase after a leading `cd`
WithoutCd(commands) ==
    IF commands # <<>> /\ Head(commands)[1] = "cd " THEN Tail(commands) ELSE commands

IsDockerBuild(command) == command[1] = "docker build -t $ECR_REPO:$IMAGE_TAG -f "

NoRepeats(seq) == \A i, j \in 1..Len(seq) : seq[i] = seq[j] => i = j

\* the commands the post_build phase appends to the strategy's list
EmitCommands == << ExportImageUri, EchoImageUri, EchoImageTag, EchoImageDigest >>

InSeq(x, seq) == \E i \in 1..Len(seq) : seq[i] = x

\* C21: for the Dockerfile and the Nixpacks strategy the pre_build, build and
\* post_build phases of the declared build specification hold every command
\* of the strategy's list exactly once and in the list's order: the registry
\* login (and for Nixpacks the Dockerfile generation) in pre_build, docker
\* build and docker push in build, the digest resolution followed by the
\* writing of imageUri.txt, imageTag.txt and imageDigest.txt in post_build.
C21_PhasesHoldEveryCommandOnceInOrder ==
    IsDeclared("Pipeline", "ServiceDockerBuild") =>
        LET phases == CfgOf("Pipeline", "ServiceDockerBuild").buildSpec.phases
            pre    == WithoutCd(phases.pre_build)
            build  == phases.build
            post   == phases.post_build
            all    == pre \o build \o post
        IN  /\ all = BuildCommands(props) \o EmitCommands
            /\ NoRepeats(all)
            /\ InSeq(RegistryLogin, pre)
            /\ (props.nixpacks => InSeq(NixpacksBuild, pre))
            /\ Len(build) = 2 /\ IsDockerBuild(build[1]) /\ build[2] = DockerPush
            /\ post = <<ExportDigest>> \o EmitCommands

C21_Witness ==
    /\ pc = "done"
    /\ IsDeclared("Pipeline", "ServiceDockerBuild")
    /\ props.nixpacks
    /\ props.serviceProps.defined
    /\ props.serviceProps.dockerFile = <<"Dockerfile.prod">>
    /\ Len(CfgOf("Pipeline", "ServiceDockerBuild").buildSpec.phases.pre_build) = 7

\* the architecture a platform or a build image denotes
ArchitectureOf(x) ==
    CASE x \in {"ARM64", "linux/arm64", "LinuxArmBuildImage.AMAZON_LINUX_2_STANDARD_3_0"}
           -> "ARM64"
      [] x \in {"X86_64", "linux/amd64", "LinuxBuildImage.STANDARD_7_0"} -> "X86_64"
      [] OTHER -> "unknown"

\* C26: for serviceProps.architecture ARM64, X86_64 or unset, the task
\* definition's cpuArchitecture, the platform of the container image asset and
\* the build images of the build and the deploy project denote the same
\* architecture.
C26_OneArchitectureEverywhere ==
    ( /\ IsDeclared("Service", "Container")
      /\ IsDeclared("Pipeline", "ServiceDockerBuild") ) =>
        LET arch == CfgOf("Service", "Task").cpuArchitecture IN
        /\ arch \in Architectures
        /\ ArchitectureOf(CfgOf("Service", "Container").platform) = arch
        /\ ArchitectureOf(CfgOf("Pipeline", "ServiceDockerBuild").buildImage) = arch
        /\ ArchitectureOf(CfgOf("Pipeline", "EcsDeployProject").buildImage) = arch
        /\ (OptArch(props.serviceProps).defined
              => arch = OptArch(props.serviceProps).value)

C26_Witness ==
    /\ pc = "done"
    /\ IsDeclared("Pipeline", "ServiceDockerBuild")
    /\ OptArch(props.serviceProps) = NoArch
    /\ CfgOf("Service", "Task").cpuArchitecture = "X86_64"
    /\ CfgOf("Pipeline", "ServiceDockerBuild").buildImage = "LinuxBuildImage.STANDARD_7_0"

----------------------------------------------------------------------------
(* Properties of the event rule, under Spec *)

\* C22: the Events construct is declared only when the pipeline is declared
\* and eventTarget is set; its rule then matches the pipeline's own name and
\* exactly the states STARTED, SUCCEEDED, FAILED, CANCELED, SUPERSEDED and
\* RESUMED, and has the external event bus as a target.
C22_EventsRuleOnlyWithPipelineAndTarget ==
    /\ DeclaredBy("Events") # {} =>
           /\ IsDeclared("Pipeline", "WebServicePipeline")
           /\ Truthy(props.eventTarget)
           /\ IsDeclared("Events", "EventsRule")
    /\ IsDeclared("Events", "EventsRule") =>
           LET rule == CfgOf("Events", "EventsRule") IN
           /\ rule.pipeline = NameOf("Pipeline", "WebServicePipeline")
           /\ rule.state = {"STARTED", "SUCCEEDED", "FAILED", "CANCELED",
                            "SUPERSEDED", "RESUMED"}
           /\ "CrossAccountEventTarget" \in rule.targets
           /\ rule.eventBusArn = props.eventTarget

C22_Witness ==
    /\ pc = "done"
    /\ IsDeclared("Events", "EventsRule")
    /\ ~props.debug
    /\ CfgOf("Events", "EventsRule").targets = {"CrossAccountEventTarget"}

\* C23: whenever the pipeline is declared and debug is set, the rule has the
\* audit log group as a target, with or without eventTarget; with debug unset
\* no audit log group is declared.
C23_DebugAlwaysWritesAuditLog ==
    /\ (pc = "done" /\ IsDeclared("Pipeline", "WebServicePipeline") /\ props.debug) =>
           /\ IsDeclared("Events", "EventsLogGroup")
           /\ IsDeclared("Events", "EventsRule")
           /\ "EventsLogGroup" \in CfgOf("Events", "EventsRule").targets
    /\ ~props.debug => ~IsDeclared("Events", "EventsLogGroup")

----------------------------------------------------------------------------
(* Properties of the monitoring loop, under SpecDeploy *)

\* the service runs desiredCount tasks, all of the revision it points at
SteadyOnNewRevision ==
    /\ service.tasks.primary = DesiredCount(props)
    /\ service.tasks.active = 0

\* C24: the monitoring loop echoes "Deployment successful" and breaks only
\* when the service is steady on the revision the execution registered: the
\* tasks counted as running are tasks of that revision, none of an older one.
C24_SuccessOnlyOnNewRevision ==
    [][ \A e \in DeployExecs :
          ( /\ "Deployment successful" \notin exec[e].log
            /\ "Deployment successful" \in exec'[e].log )
          => /\ service.taskDefinition = exec[e].NEW_TASK_DEF_ARN
             /\ SteadyOnNewRevision ]_vars

----------------------------------------------------------------------------
(* Properties of the prefix across constructs, under SpecNames *)

\* C25: the Service, Pipeline and Events constructs derive one and the same
\* resource name prefix from a descriptor, whatever the length and letter
\* case of application, service and environment: the names each of them
\* declares are that prefix with the resource's suffix.
C25_ConstructsShareOnePrefix ==
    ( /\ IsDeclared("Service", "ALB")
      /\ IsDeclared("Pipeline", "ServiceEcrRepo")
      /\ IsDeclared("Events", "EventsRule") ) =>
        LET prefix == NameOf("Service", "ALB") IN
        /\ NameOf("Service", "LogGroup") = <<"/webservice/">> \o prefix \o <<"-logs">>
        /\ NameOf("Service", "LoadBalancerDNS") = prefix \o <<"-LoadBalancerDNS">>
        /\ NameOf("Pipeline", "ServiceEcrRepo") = prefix \o <<"-repo">>
        /\ NameOf("Pipeline", "WebServicePipeline") = prefix \o <<"-pipeline">>
        /\ NameOf("Pipeline", "CodePipelineName") = prefix \o <<"-CodePipelineName">>
        /\ NameOf("Events", "EventsRule") = prefix \o <<"-events">>
        /\ NameOf("Events", "CrossAccountEventRole") = prefix \o <<"-CrossAccountEventRole">>

----------------------------------------------------------------------------
(* Properties of the artifact paths, under SpecPaths *)

\* post_build has written its files
PostBuildRan(e) == exec[e].IMAGE_URI # <<>>

\* C27: for every rootDir, unset, empty or any string, the file the deploy
\* stage reads the image URI from is one of the files the build specification
\* declares as artifacts, and it is the file post_build writes the image URI
\* to in the directory pre_build's cd entered.
C27_DeployReadsWhereBuildWrites ==
    /\ DeployImageUriFile(props) \in ArtifactFiles(props)
    /\ \A e \in DeployExecs :
         PostBuildRan(e) =>
             /\ HasFile(exec[e].files, DeployImageUriFile(props))
             /\ FileContent(exec[e].files, DeployImageUriFile(props)) = exec[e].IMAGE_URI

----------------------------------------------------------------------------
(* Properties of sanitizePath, under SpecSanitize *)

\* this.rootDir as the declared build specification holds it: the directory
\* of the leading cd of pre_build, '' when there is none
DeclaredRootDir ==
    LET pre == CfgOf("Pipeline", "ServiceDockerBuild").buildSpec.phases.pre_build
    IN  IF pre # <<>> /\ Head(pre)[1] = "cd " THEN Tail(Head(pre)) ELSE <<>>

\* C28: sanitizePath is idempotent: sanitizing the sanitized rootDir once
\* more gives the sanitized rootDir.
C28_SanitizePathIdempotent ==
    IsDeclared("Pipeline", "ServiceDockerBuild") =>
        /\ DeclaredRootDir = SanitizePath(props.rootDir)
        /\ SanitizePath(DeclaredRootDir) = DeclaredRootDir

\* C29: the result of sanitizePath is a valid relative directory path: only
\* characters of the allowed set, no '/' at either end, no two '/' in a row;
\* for an unset or empty input it is the empty string.
C29_SanitizedPathIsValidRelativePath ==
    IsDeclared("Pipeline", "ServiceDockerBuild") =>
        LET dir == DeclaredRootDir IN
        /\ \A i \in 1..Len(dir) : dir[i] \in PathChars
        /\ dir # <<>> => dir[1] # "/" /\ dir[Len(dir)] # "/"
        /\ \A i \in 1..(Len(dir) - 1) : ~(dir[i] = "/" /\ dir[i + 1] = "/")
        /\ props.rootDir \in {Undefined, <<>>} => dir = <<>>

----------------------------------------------------------------------------
(* Properties of the image build arguments, under SpecBuild *)

HasEquals(arg) == \E i \in 1..Len(arg) : arg[i] = "="

FirstEquals(arg) ==
    CHOOSE i \in 1..Len(arg) : arg[i] = "=" /\ \A j \in 1..(i - 1) : arg[j] # "="

\* C30: for every entry KEY=VALUE of serviceProps.dockerBuildArgs the image
\* build is handed the argument KEY with everything after the first '=' as
\* its value, further '=' characters included; with dockerBuildArgs unset no
\* build arguments are handed over.
C30_BuildArgsCarryCompleteValue ==
    IsDeclared("Service", "Container") =>
        LET args      == OptArgs(props.serviceProps)
            buildArgs == CfgOf("Service", "Container").buildArgs
        IN  /\ ~args.defined => ~buildArgs.defined
            /\ args.defined =>
                 /\ buildArgs.defined
                 /\ \A i \in 1..Len(args.value) :
                      LET arg == args.value[i] IN
                      HasEquals(arg) =>
                          <<SubSeq(arg, 1, FirstEquals(arg) - 1),
                            SubSeq(arg, FirstEquals(arg) + 1, Len(arg))>>
                              \in buildArgs.entries

====
